---- MODULE Spec2Model ----
(***************************************************************************)
(* PDF-outliner: the crop-preset workspace (hooks/use-workspace.ts over    *)
(* utils/indexed-db.ts), the interactive editor of components/PageCropper  *)
(* (draw / move / resize gestures) and the page render life cycle.         *)
(*                                                                         *)
(* Ratios are fixed-point numbers: the ratio 1.0 is One units.  One equals *)
(* the render width in canvas pixels, so a horizontal ratio unit is one    *)
(* canvas pixel and the minimum drag size is an exact number of units.     *)
(***************************************************************************)
EXTENDS Integers, Sequences, FiniteSets, TLC

\* ------------------------------------------------------------------------
\* Program constants
\* ------------------------------------------------------------------------
MAX_PRESETS_PER_PDF == 1
MIN_DRAG_SIZE == 8
TargetWidth == 900
One == 900
MinSize == 9
MinCropPoints == 1
NoPreset == 0
NoPdf == 0
LoadedPdf == 1

\* ------------------------------------------------------------------------
\* Bounds of the model
\* ------------------------------------------------------------------------
MaxIds == 2
MaxInFlight == 2
MaxPageInFlight == 1
MaxPage == 2
MaxCommits == 1
MaxMounts == 3
MaxGestures == 2
MaxDocPages == 5
MaxUploads == 1
MaxDownloads == 1

Ids == 1..MaxIds
Pages == 1..MaxPage

VARIABLES
  \* useWorkspace and the IndexedDB stores
  pdfId,            \* workspace.pdfId
  pdfUrl,           \* the pdfDataUrl prop of PageCropper (a document version)
  presets,          \* workspace.presets: sequence of CropPreset records
  pages,            \* workspace.pages: page -> appliedPresetId (NoPreset = undefined)
  dbPresets,        \* object store cropPresets: id -> record with pdfId
  dbPages,          \* object store pageStates: <<pdfId, pageNumber>> -> appliedPresetId
  presetQ,          \* requests in flight on the cropPresets store, in transaction order
  pageQ,            \* requests in flight on the pageStates store, in transaction order
  nextId,           \* number of ids uid() has handed out
  lastError,        \* what the last handler raised or alerted
  \* usePageNavigation
  currentPage,
  \* PageCropper: the mounted instance
  inst,             \* generation of the mounted instance (0 = none mounted)
  mounts,           \* number of renderPage calls started so far
  selectedPresetId,
  drag,
  moveDrag,
  resizeDrag,
  commits,          \* number of onUpdatePreset calls made
  gestures,         \* number of pointer-down events handled
  isRendering,
  imgSize,
  displaySize,
  overlayOffset,
  cropBoxInfo,
  domCanvas,        \* what the canvas element #pdf-canvas shows
  renders,          \* renderPage calls in flight
  rafs,             \* requestAnimationFrame callbacks scheduled
  \* the document: uploadPdf and the pdfMetadata / pdfChunks stores
  docStore,         \* pdfId -> what the stores hold of that document
  docInfo,          \* workspace.pdfName and workspace.totalPages
  liveUrls,         \* blob URLs created and not revoked
  isLoading,
  upload,           \* the uploadPdf call in flight
  uploads,          \* number of uploadPdf calls made
  resetTask,        \* the resetWorkspace call in flight
  mounted,          \* PdfCropperPage (and with it useWorkspace) is mounted
  \* PdfCropperPage: the export controls and handleExportCroppedPdf
  exportUi,         \* exportAllPages, startPage, endPage, isExporting
  exportTask,       \* the handleExportCroppedPdf call in flight
  downloads,        \* files handed to downloadPdfBytes
  \* exportCroppedPdf called on its own
  exportArgs,
  exportOut,
  \* getCropBoxPercentages called on its own
  percentArgs,
  percentOut,
  \* storePdf and getPdfBlob called on the bytes of a file
  pdfFile,          \* <<>> or the ArrayBuffer of the file, a sequence of bytes
  metaStore,        \* the pdfMetadata record of the file
  chunkStore,       \* the pdfChunks records of the file
  blobOut           \* the cursor's order and what getPdfBlob returned

wsVars == <<pdfId, pdfUrl, presets, pages>>
dbVars == <<dbPresets, dbPages>>
queueVars == <<presetQ, pageQ>>
gestureVars == <<drag, moveDrag, resizeDrag>>
displayVars == <<isRendering, imgSize, displaySize, overlayOffset, cropBoxInfo, domCanvas>>
renderVars == <<inst, mounts, renders, rafs>>
storeVars == <<docStore, docInfo, liveUrls, isLoading, upload, uploads, resetTask, mounted>>
exportVars == <<exportUi, exportTask, downloads>>
overlayVars == <<percentArgs, percentOut>>
chunkVars == <<pdfFile, metaStore, chunkStore, blobOut>>
libVars == <<exportArgs, exportOut, overlayVars, chunkVars>>
docVars == <<storeVars, exportVars, libVars>>

vars == <<pdfId, pdfUrl, presets, pages, dbPresets, dbPages,
          presetQ, pageQ, nextId, lastError, currentPage,
          inst, mounts, selectedPresetId, drag, moveDrag, resizeDrag, commits,
          gestures, isRendering, imgSize, displaySize, overlayOffset, cropBoxInfo,
          domCanvas, renders, rafs, docStore, docInfo, liveUrls, isLoading, upload,
          uploads, resetTask, mounted, exportUi, exportTask, downloads, exportArgs, exportOut,
          percentArgs, percentOut, pdfFile, metaStore, chunkStore, blobOut>>

\* ------------------------------------------------------------------------
\* clamp and small helpers
\* ------------------------------------------------------------------------
Min(a, b) == IF a < b THEN a ELSE b
Without(f, k) == [j \in DOMAIN f \ {k} |-> f[j]]
With(f, k, v) == [j \in DOMAIN f \cup {k} |-> IF j = k THEN v ELSE f[j]]
Max(a, b) == IF a > b THEN a ELSE b
Abs(a) == IF a < 0 THEN 0 - a ELSE a

clamp(n, lo, hi) == Max(lo, Min(hi, n))

PresetIds(ps) == {ps[i].id : i \in 1..Len(ps)}

\* presets.find(p => p.id === id): <<>> when there is none, else <<preset>>.
FindPreset(ps, id) ==
  LET found == SelectSeq(ps, LAMBDA q : q.id = id)
  IN IF found = <<>> THEN <<>> ELSE <<found[1]>>

\* The preset invariant of the data model on a geometry record.
ValidGeometry(g) ==
  /\ 0 <= g.x /\ g.x <= One
  /\ 0 <= g.y /\ g.y <= One
  /\ 0 < g.width /\ g.width <= One - g.x
  /\ 0 < g.height /\ g.height <= One - g.y

Geometry(p) == [x |-> p.x, y |-> p.y, width |-> p.width, height |-> p.height]

\* {...preset, ...updates} for a geometry update.
WithGeometry(p, g) ==
  [id |-> p.id, name |-> p.name, x |-> g.x, y |-> g.y,
   width |-> g.width, height |-> g.height]

\* ------------------------------------------------------------------------
\* utils/indexed-db.ts: the object stores
\* ------------------------------------------------------------------------
storeCropPreset(db, pdf, preset) ==
  [i \in DOMAIN db \cup {preset.id} |->
     IF i = preset.id
       THEN [pdfId |-> pdf, id |-> preset.id, name |-> preset.name,
             x |-> preset.x, y |-> preset.y,
             width |-> preset.width, height |-> preset.height]
       ELSE db[i]]

deleteCropPreset(db, presetId) == [i \in DOMAIN db \ {presetId} |-> db[i]]

\* The ids of the presets getCropPresets returns for a document.
getCropPresets(db, pdf) == {i \in DOMAIN db : db[i].pdfId = pdf}

storePageState(db, pdf, pageNumber, applied) ==
  [k \in DOMAIN db \cup {<<pdf, pageNumber>>} |->
     IF k = <<pdf, pageNumber>> THEN applied ELSE db[k]]

getAllPageStates(db, pdf) ==
  [pn \in {k[2] : k \in {kk \in DOMAIN db : kk[1] = pdf}} |-> db[<<pdf, pn>>]]

\* ------------------------------------------------------------------------
\* hooks/use-workspace.ts: state updates of the operations
\* ------------------------------------------------------------------------
LimitReached_OffByOne(n) == n > MAX_PRESETS_PER_PDF

LimitReached(n) == n >= MAX_PRESETS_PER_PDF

AppendPreset(ps, preset) == Append(ps, preset)

RemovePreset(ps, presetId) == SelectSeq(ps, LAMBDA q : q.id # presetId)

ClearPagesOf_All(pg, presetId) == [k \in DOMAIN pg |-> NoPreset]

ClearPagesOf(pg, presetId) ==
  [k \in DOMAIN pg |-> IF pg[k] = presetId THEN NoPreset ELSE pg[k]]

\* An update that writes the applied preset on every page that has a state.
SetPage_EveryPage(pg, page, applied) ==
  [k \in DOMAIN pg \cup {page} |-> applied]

SetPage(pg, page, applied) ==
  [k \in DOMAIN pg \cup {page} |-> IF k = page THEN applied ELSE pg[k]]

AppliedOn(pg, page) == IF page \in DOMAIN pg THEN pg[page] ELSE NoPreset

\* PageCropper's effect on [appliedPresetId]: the selection follows the applied
\* preset of the current page whenever that one changes.
SyncSelected(oldPages, newPages, sel) ==
  IF inst # 0 /\ AppliedOn(newPages, currentPage) # AppliedOn(oldPages, currentPage)
    THEN AppliedOn(newPages, currentPage)
    ELSE sel

\* createPreset: the synchronous part, up to the first await.
createPreset(preset) ==
  /\ pdfId # NoPdf
  /\ IF LimitReached(Len(presets))
       THEN /\ lastError' = "LimitExceeded"
            /\ UNCHANGED presetQ
       ELSE /\ Len(presetQ) < MaxInFlight
            /\ presetQ' = Append(presetQ, [kind |-> "create", pdf |-> pdfId,
                                           id |-> preset.id, preset |-> preset])
            /\ lastError' = "none"

\* deletePreset: the synchronous part.
deletePreset(presetId) ==
  /\ pdfId # NoPdf
  /\ Len(presetQ) < MaxInFlight
  /\ presetQ' = Append(presetQ, [kind |-> "delete", pdf |-> pdfId, id |-> presetId])

\* applyPreset / clearAppliedPreset: the synchronous part.
applyPreset(page, presetId) ==
  /\ pdfId # NoPdf
  /\ Len(pageQ) < MaxPageInFlight
  /\ pageQ' = Append(pageQ, [pdf |-> pdfId, page |-> page, applied |-> presetId])

clearAppliedPreset(page) == applyPreset(page, NoPreset)

\* The request at the head of the cropPresets queue succeeds; the awaiting
\* operation resumes in the same task and updates the workspace.
CreateCompletes ==
  /\ presetQ # <<>>
  /\ Head(presetQ).kind = "create"
  /\ presetQ' = Tail(presetQ)
  /\ dbPresets' = storeCropPreset(dbPresets, Head(presetQ).pdf, Head(presetQ).preset)
  /\ presets' = AppendPreset(presets, Head(presetQ).preset)
  /\ UNCHANGED <<pdfId, docVars, pdfUrl, pages, dbPages, pageQ,
                 nextId, lastError, currentPage, selectedPresetId, gestureVars,
                 commits, gestures, displayVars, renderVars>>

DeleteCompletes ==
  /\ presetQ # <<>>
  /\ Head(presetQ).kind = "delete"
  /\ presetQ' = Tail(presetQ)
  /\ dbPresets' = deleteCropPreset(dbPresets, Head(presetQ).id)
  /\ presets' = RemovePreset(presets, Head(presetQ).id)
  /\ pages' = ClearPagesOf(pages, Head(presetQ).id)
  /\ selectedPresetId' = SyncSelected(pages, pages', selectedPresetId)
  /\ UNCHANGED <<pdfId, docVars, pdfUrl, dbPages, pageQ, nextId,
                 lastError, currentPage, gestureVars, commits, gestures, displayVars,
                 renderVars>>

PageStateCompletes ==
  /\ pageQ # <<>>
  /\ pageQ' = Tail(pageQ)
  /\ dbPages' = storePageState(dbPages, Head(pageQ).pdf, Head(pageQ).page,
                               Head(pageQ).applied)
  /\ pages' = SetPage(pages, Head(pageQ).page, Head(pageQ).applied)
  /\ selectedPresetId' = SyncSelected(pages, pages', selectedPresetId)
  /\ UNCHANGED <<pdfId, docVars, pdfUrl, presets, dbPresets, presetQ,
                 nextId, lastError, currentPage, gestureVars, commits,
                 gestures, displayVars, renderVars>>


\* ------------------------------------------------------------------------
\* updatePresetName: getCropPresets, then storeCropPreset of the record read
\* with the new name, then the functional setWorkspace.
\* ------------------------------------------------------------------------
NewNames == {7, 8}

\* A rename that also exchanges the width and the height of the preset.
RenamePreset_Transposed(ps, presetId, name) ==
  [i \in 1..Len(ps) |->
     IF ps[i].id = presetId
       THEN [ps[i] EXCEPT !.name = name, !.width = ps[i].height, !.height = ps[i].width]
       ELSE ps[i]]

RenamePreset(ps, presetId, name) ==
  [i \in 1..Len(ps) |-> IF ps[i].id = presetId THEN [ps[i] EXCEPT !.name = name] ELSE ps[i]]

\* updatePresetName: the synchronous part, up to the await of getCropPresets.
updatePresetName(presetId, name) ==
  /\ pdfId # NoPdf
  /\ Len(presetQ) < MaxInFlight
  /\ presetQ' = Append(presetQ, [kind |-> "name-read", pdf |-> pdfId, id |-> presetId,
                                 name |-> name])

nameFrame == <<pdfId, docVars, pdfUrl, pages, dbPages, pageQ, nextId, lastError,
               currentPage, selectedPresetId, gestureVars, commits, gestures,
               displayVars, renderVars>>

\* getCropPresets settles: with the preset found the write is issued, without
\* it the workspace is updated at once.
NameReadCompletes ==
  /\ presetQ # <<>>
  /\ Head(presetQ).kind = "name-read"
  /\ LET q == Head(presetQ) IN
       IF q.id \in getCropPresets(dbPresets, q.pdf)
         THEN /\ presetQ' = Append(Tail(presetQ),
                                   [kind |-> "name-write", pdf |-> q.pdf, id |-> q.id,
                                    name |-> q.name, preset |-> dbPresets[q.id]])
              /\ UNCHANGED presets
         ELSE /\ presetQ' = Tail(presetQ)
              /\ presets' = RenamePreset(presets, q.id, q.name)
  /\ UNCHANGED <<dbPresets, nameFrame>>

\* storeCropPreset({...preset, name}) settles and the workspace is updated.
NameWriteCompletes ==
  /\ presetQ # <<>>
  /\ Head(presetQ).kind = "name-write"
  /\ presetQ' = Tail(presetQ)
  /\ LET q == Head(presetQ) IN
       /\ dbPresets' = storeCropPreset(dbPresets, q.pdf, [q.preset EXCEPT !.name = q.name])
       /\ presets' = RenamePreset(presets, q.id, q.name)
  /\ UNCHANGED nameFrame

\* ------------------------------------------------------------------------
\* updateGeometry (the operation behind onUpdatePreset).  The hook file does
\* not contain it; it is modelled from the specification of the preset store:
\* the resulting rectangle is re-validated before it is persisted.
\* ------------------------------------------------------------------------
\* {...preset, ...updates}: a move hands x and y only.
MergeUpdates(p, u) ==
  [x |-> u.x, y |-> u.y,
   width |-> IF u.sized THEN u.width ELSE p.width,
   height |-> IF u.sized THEN u.height ELSE p.height]

AcceptAnyGeometry(g) == TRUE

AcceptGeometry(g) == ValidGeometry(g)

updatePreset(presetId, updates) ==
  /\ pdfId # NoPdf
  /\ Len(presetQ) < MaxInFlight
  /\ presetQ' = Append(presetQ, [kind |-> "update", pdf |-> pdfId, id |-> presetId,
                                 updates |-> updates])

ReplacePreset(ps, preset) ==
  [i \in 1..Len(ps) |-> IF ps[i].id = preset.id THEN preset ELSE ps[i]]

UpdateCompletes ==
  /\ presetQ # <<>>
  /\ Head(presetQ).kind = "update"
  /\ presetQ' = Tail(presetQ)
  /\ LET found == FindPreset(presets, Head(presetQ).id) IN
       IF found = <<>>
         THEN UNCHANGED <<presets, dbPresets, lastError>>
         ELSE LET g == MergeUpdates(found[1], Head(presetQ).updates) IN
                IF AcceptGeometry(g)
                  THEN /\ dbPresets' = storeCropPreset(dbPresets, Head(presetQ).pdf,
                                                       WithGeometry(found[1], g))
                       /\ presets' = ReplacePreset(presets, WithGeometry(found[1], g))
                       /\ UNCHANGED lastError
                  ELSE /\ lastError' = "InvalidGeometry"
                       /\ UNCHANGED <<presets, dbPresets>>
  /\ UNCHANGED <<pdfId, docVars, pdfUrl, pages, dbPages, pageQ,
                 nextId, currentPage, selectedPresetId, gestureVars,
                 commits, gestures, displayVars, renderVars>>

\* ------------------------------------------------------------------------
\* PageCropper: pointer position and hit testing
\* ------------------------------------------------------------------------
\* The size renderPdfPageToCanvas gives a page at the target width.
FrameSize(url, page) ==
  IF url = 1 /\ page = 1 THEN [w |-> TargetWidth, h |-> 1200]
  ELSE IF url = 1 THEN [w |-> TargetWidth, h |-> 900]
  ELSE [w |-> TargetWidth, h |-> 600]

\* getBoundingClientRect of the canvas element.
CanvasBox == [w |-> 900, h |-> 1200]

\* The object-contain fit computed by the render callback and updateDisplaySize.
ContainFit(width, height, rect) ==
  IF width * rect.h > rect.w * height
    THEN LET actualHeight == (rect.w * height) \div width IN
           [w |-> rect.w, h |-> actualHeight,
            offsetX |-> 0, offsetY |-> (rect.h - actualHeight) \div 2]
    ELSE LET actualWidth == (rect.h * width) \div height IN
           [w |-> actualWidth, h |-> rect.h,
            offsetX |-> (rect.w - actualWidth) \div 2, offsetY |-> 0]

\* Pointer offsets from the overlay's corner, in display pixels.
Pointers == {<<0, 0>>, <<8, 8>>, <<8, 1200>>, <<900, 1200>>}

\* The conversion without the clamp to the canvas.
getRelativePos_Unclamped(px, py) ==
  IF imgSize.w = 0 \/ displaySize.w = 0
    THEN [x |-> 0, y |-> 0]
    ELSE [x |-> (((px * imgSize.w) \div displaySize.w) * One) \div imgSize.w,
          y |-> (((py * imgSize.h) \div displaySize.h) * One) \div imgSize.h]

getRelativePos(px, py) ==
  IF imgSize.w = 0 \/ displaySize.w = 0
    THEN [x |-> 0, y |-> 0]
    ELSE LET pixelX == clamp((px * imgSize.w) \div displaySize.w, 0, imgSize.w)
             pixelY == clamp((py * imgSize.h) \div displaySize.h, 0, imgSize.h)
         IN [x |-> (pixelX * One) \div imgSize.w, y |-> (pixelY * One) \div imgSize.h]

\* The rectangle CanvasArea hands to PresetOverlay for a preset.
DisplayPreset(p) ==
  IF moveDrag # <<>> /\ moveDrag[1].presetId = p.id
    THEN [x |-> moveDrag[1].startX, y |-> moveDrag[1].startY,
          width |-> p.width, height |-> p.height]
    ELSE IF resizeDrag # <<>> /\ resizeDrag[1].presetId = p.id
      THEN [x |-> resizeDrag[1].currentX, y |-> resizeDrag[1].currentY,
            width |-> resizeDrag[1].currentW, height |-> resizeDrag[1].currentH]
      ELSE Geometry(p)

Inside(r, g) ==
  /\ g.x <= r.x /\ r.x <= g.x + g.width
  /\ g.y <= r.y /\ r.y <= g.y + g.height

CornerHandles == {"nw", "ne", "sw", "se"}

\* The handles handleMouseMove distinguishes.
ResizeHandles == CornerHandles \cup {"n", "s", "e", "w"}

Corner(g, h) ==
  [x |-> IF h \in {"nw", "sw"} THEN g.x ELSE g.x + g.width,
   y |-> IF h \in {"nw", "ne"} THEN g.y ELSE g.y + g.height]

\* The pointer is on resize handle h of preset id (handles exist on the selected
\* preset only and lie above every overlay).
OnHandle(id, h, r) ==
  /\ displaySize.w # 0
  /\ id = selectedPresetId
  /\ FindPreset(presets, id) # <<>>
  /\ r = Corner(DisplayPreset(FindPreset(presets, id)[1]), h)

OnSomeHandle(r) == \E id \in PresetIds(presets), h \in CornerHandles : OnHandle(id, h, r)

\* The pointer is on the body of preset id: the last overlay in document order
\* that contains it.
OnBody(id, r) ==
  /\ displaySize.w # 0
  /\ ~OnSomeHandle(r)
  /\ \E i \in 1..Len(presets) :
       /\ presets[i].id = id
       /\ Inside(r, DisplayPreset(presets[i]))
       /\ \A j \in (i + 1)..Len(presets) : ~Inside(r, DisplayPreset(presets[j]))

OnCanvas(r) ==
  /\ ~OnSomeHandle(r)
  /\ displaySize.w # 0 => \A i \in 1..Len(presets) : ~Inside(r, DisplayPreset(presets[i]))

\* ------------------------------------------------------------------------
\* PageCropper: the gesture handlers
\* ------------------------------------------------------------------------
\* A limit test in the editor that never reports the limit.
CropperAtLimit_Never(n) == FALSE

CropperAtLimit(n) == n >= MAX_PRESETS_PER_PDF

\* The minimum drag size test of handleMouseUp: w >= MIN_DRAG_SIZE / imgSize.w,
\* with w in units of 1/One.
ReachesMinDrag_Always(w, imgLen) == TRUE

ReachesMinDrag(w, imgLen) == w * imgLen >= MIN_DRAG_SIZE * One

\* The candidate without the closing "ensure within bounds" step.
ResizeCandidate_Unbounded(rd, r) ==
  LET deltaX == r.x - rd.startX
      deltaY == r.y - rd.startY
      hd == rd.handle
      right == rd.startPresetX + rd.startPresetW
      bottom == rd.startPresetY + rd.startPresetH
      x1 == IF hd \in {"nw", "sw", "w"} THEN rd.startPresetX + deltaX ELSE rd.startPresetX
      y1 == IF hd \in {"nw", "ne", "n"} THEN rd.startPresetY + deltaY ELSE rd.startPresetY
      w1 == IF hd \in {"nw", "sw", "w"} THEN right - x1
            ELSE IF hd \in {"ne", "se", "e"} THEN rd.startPresetW + deltaX
            ELSE rd.startPresetW
      h1 == IF hd \in {"nw", "ne", "n"} THEN bottom - y1
            ELSE IF hd \in {"sw", "se", "s"} THEN rd.startPresetH + deltaY
            ELSE rd.startPresetH
  IN [x |-> x1, y |-> y1, w |-> Max(w1, MinSize), h |-> Max(h1, MinSize)]

\* The candidate rectangle of handleMouseMove while resizing.
ResizeCandidate(rd, r) ==
  LET deltaX == r.x - rd.startX
      deltaY == r.y - rd.startY
      hd == rd.handle
      right == rd.startPresetX + rd.startPresetW
      bottom == rd.startPresetY + rd.startPresetH
      x1 == IF hd \in {"nw", "sw", "w"}
              THEN clamp(rd.startPresetX + deltaX, 0, right - MinSize)
              ELSE rd.startPresetX
      y1 == IF hd \in {"nw", "ne", "n"}
              THEN clamp(rd.startPresetY + deltaY, 0, bottom - MinSize)
              ELSE rd.startPresetY
      w1 == IF hd \in {"nw", "sw", "w"} THEN right - x1
            ELSE IF hd \in {"ne", "se", "e"}
              THEN clamp(rd.startPresetW + deltaX, MinSize, One - rd.startPresetX)
              ELSE rd.startPresetW
      h1 == IF hd \in {"nw", "ne", "n"} THEN bottom - y1
            ELSE IF hd \in {"sw", "se", "s"}
              THEN clamp(rd.startPresetH + deltaY, MinSize, One - rd.startPresetY)
              ELSE rd.startPresetH
      x2 == IF w1 < MinSize /\ hd \in {"nw", "w"} THEN right - MinSize ELSE x1
      w2 == IF w1 < MinSize THEN MinSize ELSE w1
      y2 == IF h1 < MinSize /\ hd \in {"nw", "n"} THEN bottom - MinSize ELSE y1
      h2 == IF h1 < MinSize THEN MinSize ELSE h1
  IN [x |-> clamp(x2, 0, One - w2), y |-> clamp(y2, 0, One - h2), w |-> w2, h |-> h2]

\* The origin that follows the pointer without the clamp.
MoveOrigin_Unclamped(pos, offset, size) == pos - offset

\* The origin of handleMouseMove while moving.
MoveOrigin(pos, offset, size) == clamp(pos - offset, 0, One - size)

\* The rectangle of handleMouseMove while drawing.
DrawRect_FromStart(d, r) ==
  [startX |-> d.startX, startY |-> d.startY,
   x |-> d.startX, y |-> d.startY,
   w |-> Abs(r.x - d.startX), h |-> Abs(r.y - d.startY)]

DrawRect(d, r) ==
  [startX |-> d.startX, startY |-> d.startY,
   x |-> Min(d.startX, r.x), y |-> Min(d.startY, r.y),
   w |-> Abs(r.x - d.startX), h |-> Abs(r.y - d.startY)]

uiFrame == <<pdfId, docVars, pdfUrl, pages, dbPresets, dbPages, pageQ, currentPage,
             displayVars, renderVars>>

\* A pointer-down event is delivered to its handler.
PointerDown ==
  /\ gestures < MaxGestures
  /\ gestures' = gestures + 1

\* A pointer-down on the empty canvas that does not test the preset count.
handleMouseDown_NoLimit(r) ==
  /\ drag' = IF isRendering \/ moveDrag # <<>> \/ resizeDrag # <<>>
               THEN drag
               ELSE <<[startX |-> r.x, startY |-> r.y, x |-> r.x, y |-> r.y,
                       w |-> 0, h |-> 0]>>
  /\ lastError' = "none"
  /\ PointerDown
  /\ UNCHANGED <<presets, presetQ, nextId, selectedPresetId, moveDrag, resizeDrag,
                 commits, uiFrame>>

\* handleMouseDown: pointer-down on the empty canvas.
handleMouseDown(r) ==
  /\ drag' = IF \/ isRendering
                \/ moveDrag # <<>> \/ resizeDrag # <<>>
                \/ CropperAtLimit(Len(presets))
               THEN drag
               ELSE <<[startX |-> r.x, startY |-> r.y, x |-> r.x, y |-> r.y,
                       w |-> 0, h |-> 0]>>
  /\ lastError' = "none"
  /\ PointerDown
  /\ UNCHANGED <<presets, presetQ, nextId, selectedPresetId, moveDrag, resizeDrag,
                 commits, uiFrame>>

\* handlePresetDragStart: no test of drag or resizeDrag.
handlePresetDragStart(presetId, r) ==
  LET found == FindPreset(presets, presetId) IN
    IF isRendering \/ found = <<>>
      THEN UNCHANGED <<selectedPresetId, moveDrag>>
      ELSE /\ selectedPresetId' = presetId
           /\ moveDrag' = <<[presetId |-> presetId,
                             startX |-> found[1].x, startY |-> found[1].y,
                             offsetX |-> r.x - found[1].x,
                             offsetY |-> r.y - found[1].y]>>

\* Pointer-down on a body that starts the drag whether or not the preset is
\* the selected one.
overlayMouseDown_AlwaysDrag(presetId, r) ==
  /\ handlePresetDragStart(presetId, r)
  /\ lastError' = "none"
  /\ PointerDown
  /\ UNCHANGED <<presets, presetQ, nextId, drag, resizeDrag, commits, uiFrame>>

\* PresetOverlay.handleMouseDown: pointer-down on a preset's body.
overlayMouseDown(presetId, r) ==
  /\ IF presetId = selectedPresetId
       THEN handlePresetDragStart(presetId, r)
       ELSE /\ selectedPresetId' = presetId
            /\ UNCHANGED moveDrag
  /\ lastError' = "none"
  /\ PointerDown
  /\ UNCHANGED <<presets, presetQ, nextId, drag, resizeDrag, commits, uiFrame>>

\* A resize start that does not test the rendering flag.
handlePresetResizeStart_WhileRendering(presetId, handle, r) ==
  /\ LET found == FindPreset(presets, presetId) IN
       IF found = <<>>
         THEN UNCHANGED <<selectedPresetId, resizeDrag>>
         ELSE /\ selectedPresetId' = presetId
              /\ resizeDrag' = <<[presetId |-> presetId, handle |-> handle,
                                  startX |-> r.x, startY |-> r.y,
                                  startPresetX |-> found[1].x,
                                  startPresetY |-> found[1].y,
                                  startPresetW |-> found[1].width,
                                  startPresetH |-> found[1].height,
                                  currentX |-> found[1].x,
                                  currentY |-> found[1].y,
                                  currentW |-> found[1].width,
                                  currentH |-> found[1].height]>>
  /\ lastError' = "none"
  /\ PointerDown
  /\ UNCHANGED <<presets, presetQ, nextId, drag, moveDrag, commits, uiFrame>>

\* handlePresetResizeStart: no test of drag or moveDrag.
handlePresetResizeStart(presetId, handle, r) ==
  /\ LET found == FindPreset(presets, presetId) IN
       IF isRendering \/ found = <<>>
         THEN UNCHANGED <<selectedPresetId, resizeDrag>>
         ELSE /\ selectedPresetId' = presetId
              /\ resizeDrag' = <<[presetId |-> presetId, handle |-> handle,
                                  startX |-> r.x, startY |-> r.y,
                                  startPresetX |-> found[1].x,
                                  startPresetY |-> found[1].y,
                                  startPresetW |-> found[1].width,
                                  startPresetH |-> found[1].height,
                                  currentX |-> found[1].x,
                                  currentY |-> found[1].y,
                                  currentW |-> found[1].width,
                                  currentH |-> found[1].height]>>
  /\ lastError' = "none"
  /\ PointerDown
  /\ UNCHANGED <<presets, presetQ, nextId, drag, moveDrag, commits, uiFrame>>

handleMouseMove(r) ==
  /\ IF resizeDrag # <<>>
       THEN LET c == ResizeCandidate(resizeDrag[1], r) IN
              /\ resizeDrag' = <<[resizeDrag[1] EXCEPT !.currentX = c.x, !.currentY = c.y,
                                                       !.currentW = c.w, !.currentH = c.h]>>
              /\ UNCHANGED <<drag, moveDrag>>
       ELSE IF moveDrag # <<>>
         THEN LET found == FindPreset(presets, moveDrag[1].presetId) IN
                /\ moveDrag' =
                     IF found = <<>>
                       THEN <<>>
                       ELSE <<[moveDrag[1] EXCEPT
                                 !.startX = MoveOrigin(r.x, moveDrag[1].offsetX, found[1].width),
                                 !.startY = MoveOrigin(r.y, moveDrag[1].offsetY, found[1].height)]>>
                /\ UNCHANGED <<drag, resizeDrag>>
         ELSE /\ drag' = IF drag = <<>> THEN <<>> ELSE <<DrawRect(drag[1], r)>>
              /\ UNCHANGED <<moveDrag, resizeDrag>>
  /\ lastError' = "none"
  /\ UNCHANGED <<presets, presetQ, nextId, selectedPresetId, commits, gestures, uiFrame>>

\* onUpdatePreset(presetId, updates) as called by handleMouseUp; seen is the
\* preset the handler compared with.
CommitGeometry(seen, updates) ==
  /\ commits < MaxCommits
  /\ commits' = commits + 1
  /\ updatePreset(seen.id, updates)

handleMouseUp ==
  IF resizeDrag # <<>>
    THEN LET rd == resizeDrag[1]
             found == FindPreset(presets, rd.presetId)
         IN /\ resizeDrag' = <<>>
            /\ IF /\ found # <<>>
                  /\ \/ rd.currentX # found[1].x \/ rd.currentY # found[1].y
                     \/ rd.currentW # found[1].width \/ rd.currentH # found[1].height
                 THEN CommitGeometry(found[1],
                        [x |-> rd.currentX, y |-> rd.currentY, sized |-> TRUE,
                         width |-> rd.currentW, height |-> rd.currentH])
                 ELSE UNCHANGED <<presetQ, commits>>
            /\ lastError' = "none"
            /\ UNCHANGED <<presets, nextId, selectedPresetId, drag, moveDrag, gestures,
                           uiFrame>>
    ELSE IF moveDrag # <<>>
      THEN LET md == moveDrag[1]
               found == FindPreset(presets, md.presetId)
           IN /\ moveDrag' = <<>>
              /\ IF found # <<>>
                   THEN LET newX == clamp(md.startX, 0, One - found[1].width)
                            newY == clamp(md.startY, 0, One - found[1].height)
                        IN IF newX # found[1].x \/ newY # found[1].y
                             THEN CommitGeometry(found[1],
                                    [x |-> newX, y |-> newY, sized |-> FALSE])
                             ELSE UNCHANGED <<presetQ, commits>>
                   ELSE UNCHANGED <<presetQ, commits>>
              /\ lastError' = "none"
              /\ UNCHANGED <<presets, nextId, selectedPresetId, drag, resizeDrag,
                             gestures, uiFrame>>
      ELSE /\ drag' = <<>>
                    /\ IF /\ drag # <<>>
                 /\ ReachesMinDrag(drag[1].w, imgSize.w)
                 /\ ReachesMinDrag(drag[1].h, imgSize.h)
                THEN IF CropperAtLimit(Len(presets))
                       THEN /\ lastError' = "LimitExceeded"
                            /\ UNCHANGED <<presetQ, nextId, selectedPresetId>>
                       ELSE /\ nextId < MaxIds
                            /\ nextId' = nextId + 1
                            /\ createPreset([id |-> nextId + 1, name |-> Len(presets) + 1,
                                             x |-> drag[1].x, y |-> drag[1].y,
                                             width |-> drag[1].w, height |-> drag[1].h])
                            /\ selectedPresetId' = nextId + 1
                ELSE /\ lastError' = "none"
                     /\ UNCHANGED <<presetQ, nextId, selectedPresetId>>
           /\ UNCHANGED <<presets, moveDrag, resizeDrag, commits, gestures, uiFrame>>

handleMouseLeave_KeepMove ==
  /\ drag' = <<>>
  /\ resizeDrag' = <<>>
  /\ UNCHANGED moveDrag

handleMouseLeave ==
  /\ drag' = <<>>
  /\ moveDrag' = <<>>
  /\ resizeDrag' = <<>>

\* --- the events the user can raise on the mounted editor -----------------
CanvasMouseDown ==
  /\ inst # 0
  /\ \E pt \in Pointers :
       LET r == getRelativePos(pt[1], pt[2]) IN OnCanvas(r) /\ handleMouseDown(r)

PresetMouseDown ==
  /\ inst # 0
  /\ \E pt \in Pointers, id \in PresetIds(presets) :
       LET r == getRelativePos(pt[1], pt[2]) IN OnBody(id, r) /\ overlayMouseDown(id, r)

HandleMouseDown ==
  /\ inst # 0
  /\ \E pt \in Pointers, id \in PresetIds(presets), h \in CornerHandles :
       LET r == getRelativePos(pt[1], pt[2]) IN
         OnHandle(id, h, r) /\ handlePresetResizeStart(id, h, r)

MouseMove ==
  /\ inst # 0
  /\ \E pt \in Pointers : handleMouseMove(getRelativePos(pt[1], pt[2]))

MouseUp ==
  /\ inst # 0
  /\ handleMouseUp

MouseLeave ==
  /\ inst # 0
  /\ handleMouseLeave
  /\ lastError' = "none"
  /\ UNCHANGED <<presets, presetQ, nextId, selectedPresetId, commits, gestures, uiFrame>>

\* onSelect from the sidebar item or the overlay's click / key handler.
SelectPreset ==
  /\ inst # 0
  /\ \E id \in PresetIds(presets) : selectedPresetId' = id
  /\ lastError' = "none"
  /\ UNCHANGED <<presets, presetQ, nextId, gestureVars, commits, gestures, uiFrame>>

\* The sidebar's delete button.
DeleteClick ==
  /\ inst # 0
  /\ \E id \in PresetIds(presets) : deletePreset(id)
  /\ lastError' = "none"
  /\ UNCHANGED <<presets, nextId, selectedPresetId, gestureVars, commits, gestures, uiFrame>>

\* ------------------------------------------------------------------------
\* PageCropper: the render effect and its life cycle
\* ------------------------------------------------------------------------
NoSize == [w |-> 0, h |-> 0]

\* The effect's cleanup: cancelled = true in the closure of every render the
\* instance started (the render function and its animation-frame callback
\* share the flag; only the render function reads it).
Cancel(tasks, i) ==
  {[t EXCEPT !.cancelled = (t.cancelled \/ t.inst = i)] : t \in tasks}

\* The effect body: renderPage() starts and runs to its first await.
StartRender(i, url, page) ==
  /\ mounts' = mounts + 1
  /\ renders' = Cancel(renders, inst) \cup
                  {[id |-> mounts + 1, inst |-> i, url |-> url, page |-> page,
                    cancelled |-> FALSE]}
  /\ rafs' = Cancel(rafs, inst)
  /\ isRendering' = TRUE

\* A new instance is mounted (key changed): state starts from its initial values.
Remount(url, page) ==
  /\ inst' = inst + 1
  /\ StartRender(inst + 1, url, page)
  /\ imgSize' = NoSize
  /\ displaySize' = NoSize
  /\ overlayOffset' = NoSize
  /\ cropBoxInfo' = <<>>
  /\ domCanvas' = <<>>
  /\ drag' = <<>>
  /\ moveDrag' = <<>>
  /\ resizeDrag' = <<>>
  /\ selectedPresetId' = AppliedOn(pages, page)

\* The awaits of a renderPage call are over: the cancellation test and, when
\* it passes, the writes up to setIsRendering(false); the effect on [imgSize]
\* (updateDisplaySize) runs with the commit.
RenderCompletes ==
  \E t \in renders :
    /\ renders' = renders \ {t}
    /\ IF t.cancelled
         THEN UNCHANGED <<displayVars, rafs>>
         ELSE LET size == FrameSize(t.url, t.page)
                  fit == ContainFit(size.w, size.h, CanvasBox)
              IN /\ imgSize' = size
                 /\ cropBoxInfo' = <<[width |-> size.w, height |-> size.h]>>
                 /\ domCanvas' = <<[url |-> t.url, page |-> t.page]>>
                 /\ rafs' = rafs \cup {[id |-> t.id, inst |-> t.inst, width |-> size.w,
                                        height |-> size.h, cancelled |-> FALSE]}
                 /\ isRendering' = FALSE
                 /\ displaySize' = [w |-> fit.w, h |-> fit.h]
                 /\ overlayOffset' = [w |-> fit.offsetX, h |-> fit.offsetY]
    /\ UNCHANGED <<wsVars, docVars, dbVars, queueVars, nextId, lastError, currentPage, inst,
                   mounts, selectedPresetId, gestureVars, commits, gestures>>

\* A renderPage call rejects at one of its awaits (fetch, getDocument, getPage,
\* the 2D context, page.render): renderPage has no catch and no finally, so
\* nothing after the await runs and no state is written.
RenderFails ==
  \E t \in renders :
    /\ renders' = renders \ {t}
    /\ UNCHANGED <<wsVars, docVars, dbVars, queueVars, nextId, lastError, currentPage, inst,
                   mounts, selectedPresetId, gestureVars, commits, gestures, displayVars,
                   rafs>>

\* The animation-frame callback of a render runs: no cancellation test; a state
\* setter of an unmounted instance does nothing.
RafFires ==
  \E f \in rafs :
    /\ rafs' = rafs \ {f}
    /\ IF f.inst = inst
         THEN LET fit == ContainFit(f.width, f.height, CanvasBox) IN
                /\ displaySize' = [w |-> fit.w, h |-> fit.h]
                /\ overlayOffset' = [w |-> fit.offsetX, h |-> fit.offsetY]
         ELSE UNCHANGED <<displaySize, overlayOffset>>
    /\ UNCHANGED <<wsVars, docVars, dbVars, queueVars, nextId, lastError, currentPage, inst,
                   mounts, renders, selectedPresetId, gestureVars, commits, gestures,
                   isRendering, imgSize, cropBoxInfo, domCanvas>>

\* navigateToPage: the page changes and PageCropper is remounted (key={page}).
Navigate ==
  /\ mounts < MaxMounts
  /\ \E p \in Pages :
       /\ p # currentPage
       /\ currentPage' = p
       /\ Remount(pdfUrl, p)
  /\ UNCHANGED <<pdfId, docVars, pdfUrl, presets, pages, dbVars, queueVars, nextId, lastError,
                 commits, gestures>>

\* "Replace PDF" of App: the document changes and the page becomes 1; on page 1
\* the key stays and the mounted instance gets the new pdfDataUrl.
ReplaceDocument ==
  /\ mounts < MaxMounts
  /\ pdfUrl' = pdfUrl + 1
  /\ currentPage' = 1
  /\ IF currentPage # 1
       THEN Remount(pdfUrl + 1, 1)
       ELSE /\ StartRender(inst, pdfUrl + 1, 1)
            /\ UNCHANGED <<inst, imgSize, displaySize, overlayOffset, cropBoxInfo,
                           domCanvas, gestureVars, selectedPresetId>>
  /\ UNCHANGED <<pdfId, docVars, presets, pages, dbVars, queueVars, nextId, lastError, commits,
                 gestures>>

\* ------------------------------------------------------------------------
\* The workspace hook driven through its interface
\* ------------------------------------------------------------------------
ApiRects ==
  { [x |-> 0, y |-> 0, width |-> One, height |-> One],
    [x |-> 90, y |-> 90, width |-> 450, height |-> 450] }

\* Partial rectangles as the gestures hand them over: a move gives x and y, a
\* resize all four.
ApiUpdates ==
  { [x |-> 450, y |-> 0, sized |-> FALSE],
    [x |-> 600, y |-> 90, sized |-> TRUE, width |-> 300, height |-> 450] }

NewPreset(g, n) ==
  [id |-> nextId + 1, name |-> n,
   x |-> g.x, y |-> g.y, width |-> g.width, height |-> g.height]

apiFrame == <<pdfId, docVars, pdfUrl, presets, pages, dbVars, currentPage, selectedPresetId,
              gestureVars, commits, gestures, displayVars, renderVars>>

ApiCreatePreset ==
  /\ nextId < MaxIds
  /\ \E g \in ApiRects :
       /\ createPreset(NewPreset(g, Len(presets) + 1))
       /\ nextId' = nextId + 1
  /\ UNCHANGED <<pageQ, apiFrame>>

ApiDeletePreset ==
  /\ \E i \in 1..nextId : deletePreset(i)
  /\ lastError' = "none"
  /\ UNCHANGED <<pageQ, nextId, apiFrame>>

ApiUpdatePreset ==
  /\ \E i \in PresetIds(presets), u \in ApiUpdates : updatePreset(i, u)
  /\ lastError' = "none"
  /\ UNCHANGED <<pageQ, nextId, apiFrame>>

ApiApplyPreset ==
  /\ \E pg \in Pages, i \in Ids : applyPreset(pg, i)
  /\ lastError' = "none"
  /\ UNCHANGED <<presetQ, nextId, apiFrame>>

ApiClearAppliedPreset ==
  /\ \E pg \in Pages : clearAppliedPreset(pg)
  /\ lastError' = "none"
  /\ UNCHANGED <<presetQ, nextId, apiFrame>>

ApiUpdatePresetName ==
  /\ \E i \in Ids, n \in NewNames : updatePresetName(i, n)
  /\ lastError' = "none"
  /\ UNCHANGED <<pageQ, nextId, apiFrame>>

\* ------------------------------------------------------------------------
\* exportCroppedPdf (utils/lib.ts).  A source document is the sequence of its
\* page sizes in PDF points; lengths on a page are kept in 1/One of a point,
\* so that a ratio times a page size is exact.

\* page.getSize() of page i of a source document.
LetterPage == [width |-> 612, height |-> 792]
LabelPage == [width |-> 72, height |-> 72]
PageSizeOf(i) == IF i % 2 = 1 THEN LetterPage ELSE LabelPage
SourceDoc(n) == [i \in 1..n |-> PageSizeOf(i)]

\* The crop box without the flip of the vertical axis.
applyCropToPage_NoFlip(page, preset) ==
  [x |-> preset.x * page.width, y |-> preset.y * page.height,
   width |-> Max(MinCropPoints * One, preset.width * page.width),
   height |-> Max(MinCropPoints * One, preset.height * page.height)]

\* The crop box page.setCropBox is called with, in 1/One of a point.
applyCropToPage(page, preset) ==
  LET pageWidth == page.width * One
      pageHeight == page.height * One
      pdfX == preset.x * page.width
      pdfY == pageHeight - (preset.y * page.height) - (preset.height * page.height)
      pdfWidth == preset.width * page.width
      pdfHeight == preset.height * page.height
      clampedX == clamp(pdfX, 0, pageWidth)
      clampedY == clamp(pdfY, 0, pageHeight)
      clampedWidth == clamp(pdfWidth, MinCropPoints * One, pageWidth - clampedX)
      clampedHeight == clamp(pdfHeight, MinCropPoints * One, pageHeight - clampedY)
  IN [x |-> clampedX, y |-> clampedY, width |-> clampedWidth, height |-> clampedHeight]

\* startPage and endPage as exportCroppedPdf clamps them.
ClampRange_EndFromOne(pageRange, totalPages) ==
  [startPage |-> Max(1, Min(pageRange.startPage, totalPages)),
   endPage |-> Max(1, Min(pageRange.endPage, totalPages))]

ClampRange(pageRange, totalPages) ==
  LET startPage == Max(1, Min(pageRange.startPage, totalPages))
      endPage == Max(startPage, Min(pageRange.endPage, totalPages))
  IN [startPage |-> startPage, endPage |-> endPage]

\* pagesToExport: 0-based indices into the source document.
PagesToExport(pageRange, totalPages) ==
  IF pageRange # <<>>
    THEN LET c == ClampRange(pageRange[1], totalPages)
         IN [i \in 1..(c.endPage - c.startPage + 1) |-> c.startPage + (i - 1) - 1]
    ELSE [i \in 1..totalPages |-> i - 1]

\* One character in lower case, for the characters of ".pdf".
Lower(c) == CASE c = "P" -> "p" [] c = "D" -> "d" [] c = "F" -> "f" [] OTHER -> c
CharAt(str, i) == SubSeq(str, i, i)
EndsWithPdf(name) ==
  /\ Len(name) >= 4
  /\ \A i \in 1..4 : Lower(CharAt(name, Len(name) - 4 + i)) = CharAt(".pdf", i)

\* originalFilename.replace(/\.pdf$/i, "")
BaseName_CaseSensitive(name) ==
  IF Len(name) >= 4 /\ SubSeq(name, Len(name) - 3, Len(name)) = ".pdf"
    THEN SubSeq(name, 1, Len(name) - 4)
    ELSE name

BaseName(name) ==
  IF EndsWithPdf(name) THEN SubSeq(name, 1, Len(name) - 4) ELSE name

ExportFilename(originalFilename, pageRange, totalPages) ==
  LET baseName == BaseName(originalFilename)
  IN IF pageRange # <<>>
       THEN LET c == ClampRange(pageRange[1], totalPages)
            IN IF c.startPage = c.endPage
                 THEN baseName \o "_cropped_page" \o ToString(c.startPage) \o ".pdf"
                 ELSE baseName \o "_cropped_pages" \o ToString(c.startPage) \o "-"
                        \o ToString(c.endPage) \o ".pdf"
       ELSE baseName \o "_cropped.pdf"

\* What exportCroppedPdf returns: the new document (the source page each of
\* its pages was copied from, and its crop box) and the file name.
exportCroppedPdf(doc, preset, originalFilename, pageRange) ==
  LET totalPages == Len(doc)
      pagesToExport == PagesToExport(pageRange, totalPages)
  IN [pages |-> pagesToExport,
      boxes |-> [i \in 1..Len(pagesToExport) |->
                   applyCropToPage(doc[pagesToExport[i] + 1], preset)],
      filename |-> ExportFilename(originalFilename, pageRange, totalPages)]

\* The arguments exportCroppedPdf is called with.
FileNames ==
  {"a.pdf", "a.PDf", "apdf", "a.pdf.pdf", "a"}
LibPresets ==
  {[x |-> 90, y |-> 90, width |-> 450, height |-> 450],
   [x |-> 0, y |-> 0, width |-> One, height |-> One],
   [x |-> 891, y |-> 0, width |-> 9, height |-> 450],
   [x |-> 0, y |-> 892, width |-> 8, height |-> 8]}
PageRanges ==
  {<<>>} \cup {<<[startPage |-> s, endPage |-> e]>> : s, e \in 0..(MaxDocPages + 1)}
ExportCalls ==
  [doc : {SourceDoc(n) : n \in 1..MaxDocPages}, preset : LibPresets,
   originalFilename : FileNames, pageRange : PageRanges]

CallExportCroppedPdf ==
  /\ exportArgs # <<>>
  /\ exportOut = <<>>
  /\ exportOut' = <<exportCroppedPdf(exportArgs[1].doc, exportArgs[1].preset,
                                       exportArgs[1].originalFilename,
                                       exportArgs[1].pageRange)>>
  /\ UNCHANGED <<wsVars, dbVars, queueVars, nextId, lastError, currentPage, commits,
                 gestures, selectedPresetId, gestureVars, displayVars, renderVars,
                 storeVars, exportVars, exportArgs, overlayVars, chunkVars>>

\* ------------------------------------------------------------------------
\* PresetOverlay.getCropBoxPercentages.  Percentages are kept in 1/One of a
\* percent, box lengths in PDF points.

Hundred == 100 * One

\* What renderPdfPageToCanvas reports for a page without a readable CropBox:
\* the MediaBox with origin (0, 0).
MediaBoxAsCropBox(media) ==
  [width |-> media.width, height |-> media.height, x |-> 0, y |-> 0,
   mediaBoxWidth |-> media.width, mediaBoxHeight |-> media.height]

\* A page whose CropBox lies inside its MediaBox.
InnerCropBox(media) ==
  [width |-> media.width - 12, height |-> media.height - 12, x |-> 6, y |-> 6,
   mediaBoxWidth |-> media.width, mediaBoxHeight |-> media.height]

\* cropBoxInfo is <<>> (null) or <<info>>.
getCropBoxPercentages(preset, info) ==
  IF info = <<>>
    THEN [x |-> preset.x * 100, y |-> preset.y * 100,
          width |-> preset.width * 100, height |-> preset.height * 100]
    ELSE LET c == info[1]
             mediaBoxCanvasX == preset.x * c.mediaBoxWidth
             mediaBoxCanvasY == preset.y * c.mediaBoxHeight
             mediaBoxCanvasW == preset.width * c.mediaBoxWidth
             mediaBoxCanvasH == preset.height * c.mediaBoxHeight
             mediaBoxPdfY == c.mediaBoxHeight * One - mediaBoxCanvasY - mediaBoxCanvasH
             cropBoxPdfX == mediaBoxCanvasX - c.x * One
             cropBoxPdfY == mediaBoxPdfY - c.y * One
         IN [x |-> clamp((cropBoxPdfX * 100) \div c.width, 0, Hundred),
             y |-> clamp((cropBoxPdfY * 100) \div c.height, 0, Hundred),
             width |-> clamp((mediaBoxCanvasW * 100) \div c.width, 0, Hundred),
             height |-> clamp((mediaBoxCanvasH * 100) \div c.height, 0, Hundred)]

BoxPresets ==
  {[id |-> 1, name |-> 1, x |-> x, y |-> y, width |-> w, height |-> h] :
     x \in {0, 90, 450}, y \in {0, 90, 450}, w \in {9, 450}, h \in {9, 450}}

BoxInfos ==
  {<<>>} \cup {<<MediaBoxAsCropBox(m)>> : m \in {LetterPage, LabelPage}}
         \cup {<<InnerCropBox(m)>> : m \in {LetterPage, LabelPage}}

\* PresetOverlay renders: the percentages of its preset are computed.
CallGetCropBoxPercentages ==
  /\ percentArgs # <<>>
  /\ percentOut = <<>>
  /\ percentOut' = <<getCropBoxPercentages(percentArgs[1].preset, percentArgs[1].info)>>
  /\ UNCHANGED <<wsVars, dbVars, queueVars, nextId, lastError, currentPage, commits,
                 gestures, selectedPresetId, gestureVars, displayVars, renderVars,
                 storeVars, exportVars, exportArgs, exportOut, percentArgs, chunkVars>>

\* ------------------------------------------------------------------------
\* The bytes of a stored file (utils/indexed-db.ts).  Sizes are scaled: a
\* chunk holds CHUNK_SIZE bytes.
CHUNK_SIZE == 2
MaxFileLen == 5
Bytes == {0, 1}
ByteFiles == UNION {[1..n -> Bytes] : n \in 0..MaxFileLen}

\* buffer.slice(offset, end) for each offset the loop visits.
RECURSIVE ChunksFrom(_, _, _)
ChunksFrom(buffer, offset, chunkSize) ==
  IF offset < Len(buffer)
    THEN LET end == Min(offset + chunkSize, Len(buffer))
         IN  <<SubSeq(buffer, offset + 1, end)>> \o ChunksFrom(buffer, end, chunkSize)
    ELSE <<>>

chunkArrayBuffer(buffer, chunkSize) == ChunksFrom(buffer, 0, chunkSize)

\* storePdf: the metadata record with numChunks is put first.
StoreFileMetadata ==
  /\ pdfFile # <<>>
  /\ metaStore = <<>>
  /\ metaStore' = <<[numChunks |-> Len(chunkArrayBuffer(pdfFile[1], CHUNK_SIZE))]>>
  /\ UNCHANGED <<wsVars, dbVars, queueVars, nextId, lastError, currentPage, commits,
                 gestures, selectedPresetId, gestureVars, displayVars, renderVars,
                 storeVars, exportVars, exportArgs, exportOut, overlayVars,
                 pdfFile, chunkStore, blobOut>>

\* storePdf: the chunks are put in parallel transactions, which complete in
\* any order.
StoreFileChunk ==
  /\ pdfFile # <<>>
  /\ metaStore # <<>>
  /\ LET chunks == chunkArrayBuffer(pdfFile[1], CHUNK_SIZE)
     IN  \E index \in 0..(Len(chunks) - 1) :
           /\ \A c \in chunkStore : c.chunkIndex # index
           /\ chunkStore' = chunkStore \cup {[chunkIndex |-> index, data |-> chunks[index + 1]]}
  /\ UNCHANGED <<wsVars, dbVars, queueVars, nextId, lastError, currentPage, commits,
                 gestures, selectedPresetId, gestureVars, displayVars, renderVars,
                 storeVars, exportVars, exportArgs, exportOut, overlayVars,
                 pdfFile, metaStore, blobOut>>

\* Promise.all(chunkPromises) resolved: storePdf has returned.
StorePdfReturned ==
  /\ pdfFile # <<>>
  /\ metaStore # <<>>
  /\ \A index \in 0..(Len(chunkArrayBuffer(pdfFile[1], CHUNK_SIZE)) - 1) :
       \E c \in chunkStore : c.chunkIndex = index

\* The orders in which the cursor over the pdfId index can return records.
CursorOrders(records) ==
  {s \in [1..Cardinality(records) -> records] :
     \A i, j \in DOMAIN s : i # j => s[i] # s[j]}

\* chunkMap.set(chunk.chunkIndex, chunk.data) for each record of the cursor.
RECURSIVE ChunkMap(_)
ChunkMap(cursor) ==
  IF cursor = <<>> THEN <<>>
  ELSE LET last == cursor[Len(cursor)]
       IN  With(ChunkMap(SubSeq(cursor, 1, Len(cursor) - 1)), last.chunkIndex, last.data)

\* combined.set(chunk, offset) for the chunks 0 .. numChunks - 1.
RECURSIVE Combine(_, _)
Combine(chunkMap, numChunks) ==
  IF numChunks = 0 THEN <<>>
  ELSE Combine(chunkMap, numChunks - 1) \o chunkMap[numChunks - 1]

\* The chunks combined in the order of the cursor.
getPdfBlob_CursorOrder(meta, cursor) ==
  [ok |-> TRUE,
   bytes |-> Combine([i \in 0..(Len(cursor) - 1) |-> cursor[i + 1].data], Len(cursor))]

getPdfBlob(meta, cursor) ==
  IF meta = <<>> THEN [ok |-> FALSE, bytes |-> <<>>]
  ELSE LET chunkMap == ChunkMap(cursor)
       IN  IF \E i \in 0..(meta[1].numChunks - 1) : i \notin DOMAIN chunkMap
             THEN [ok |-> FALSE, bytes |-> <<>>]
             ELSE [ok |-> TRUE, bytes |-> Combine(chunkMap, meta[1].numChunks)]

\* getPdfBlob is called once storePdf has returned.
CallGetPdfBlob ==
  /\ StorePdfReturned
  /\ blobOut = <<>>
  /\ \E cursor \in CursorOrders(chunkStore) :
       blobOut' = <<[cursor |-> [i \in DOMAIN cursor |-> cursor[i].chunkIndex],
                     blob |-> getPdfBlob(metaStore, cursor)]>>
  /\ UNCHANGED <<wsVars, dbVars, queueVars, nextId, lastError, currentPage, commits,
                 gestures, selectedPresetId, gestureVars, displayVars, renderVars,
                 storeVars, exportVars, exportArgs, exportOut, overlayVars,
                 pdfFile, metaStore, chunkStore>>

\* ------------------------------------------------------------------------
\* The stored document (utils/indexed-db.ts).  docStore.metadata is the
\* pdfMetadata store, docStore.chunks the pdfChunks store; a file is stored
\* as one chunk, which holds the document.
LoadedName == "a.pdf"
LoadedDoc == SourceDoc(MaxPage)

\* The files the user can pick: a PDF, and a file pdf.js cannot parse.
Files == {[name |-> "b.pdf", doc |-> SourceDoc(MaxPage + 1)],
          [name |-> "c.pdf", doc |-> <<>>]}

\* storePdf: the metadata record, then the chunk, each in its own transaction.
PutMetadata(store, pdf, file) ==
  [store EXCEPT !.metadata = With(@, pdf, [name |-> file.name, totalPages |-> 0])]

PutChunks(store, pdf, file) == [store EXCEPT !.chunks = With(@, pdf, file.doc)]

storePdf(store, pdf, file) == PutChunks(PutMetadata(store, pdf, file), pdf, file)

updatePdfMetadata(store, pdf, totalPages) ==
  IF pdf \in DOMAIN store.metadata
    THEN [store EXCEPT !.metadata[pdf].totalPages = totalPages]
    ELSE store

\* deletePdf: chunks, metadata and page states of the document.
deletePdf(store, pdf) ==
  [metadata |-> Without(store.metadata, pdf), chunks |-> Without(store.chunks, pdf)]

DeletePageStates(db, pdf) == [k \in {kk \in DOMAIN db : kk[1] # pdf} |-> db[k]]

\* getPdfBlob resolves only when the metadata and the chunk are there.
BlobAvailable(store, pdf) == pdf \in DOMAIN store.metadata /\ pdf \in DOMAIN store.chunks

\* The effect of PdfCropperPage on [totalPages, startPage].
SyncRange(ui, totalPages) ==
  IF totalPages > 0
    THEN [ui EXCEPT !.endPage = totalPages,
                    !.startPage = IF ui.startPage > totalPages THEN 1 ELSE ui.startPage]
    ELSE ui

InitDocument ==
  /\ docStore = [metadata |-> [p \in {LoadedPdf} |->
                                [name |-> LoadedName, totalPages |-> MaxPage]],
                 chunks |-> [p \in {LoadedPdf} |-> LoadedDoc]]
  /\ docInfo = [pdfName |-> LoadedName, totalPages |-> MaxPage]
  /\ liveUrls = {1}
  /\ isLoading = FALSE
  /\ upload = <<>>
  /\ uploads = 0
  /\ resetTask = <<>>
  /\ mounted = TRUE
  /\ exportUi = [exportAllPages |-> TRUE, startPage |-> 1, endPage |-> MaxPage,
                 isExporting |-> FALSE]
  /\ exportTask = <<>>
  /\ downloads = <<>>

\* ------------------------------------------------------------------------
\* uploadPdf (hooks/use-workspace.ts) under handleUploadPdf (pdf-cropper.tsx)

\* What every step of uploadPdf leaves alone.
uploadFrame == <<presetQ, pageQ, nextId, dbPresets, commits, gestures, selectedPresetId,
                 gestureVars, displayVars, renderVars, exportTask, downloads, libVars,
                 resetTask, mounted>>

\* catch / finally of uploadPdf, then the catch of handleUploadPdf.
UploadFails ==
  /\ upload' = <<>>
  /\ isLoading' = FALSE
  /\ lastError' = "UploadFailed"
  /\ UNCHANGED <<wsVars, docInfo, liveUrls, currentPage, exportUi>>

\* The synchronous part: setIsLoading(true), the old blob URL is revoked, and
\* deletePdf of the old document is awaited.
UploadPdf ==
  /\ mounted
  /\ upload = <<>>
  /\ resetTask = <<>>
  /\ ~isLoading
  /\ uploads < MaxUploads
  /\ \E file \in Files :
       upload' = <<[file |-> file, old |-> pdfId, id |-> LoadedPdf + uploads + 1,
                    step |-> IF pdfId # NoPdf THEN "delete" ELSE "store",
                    totalPages |-> 0]>>
  /\ uploads' = uploads + 1
  /\ isLoading' = TRUE
  /\ liveUrls' = liveUrls \ {pdfUrl}
  /\ lastError' = "none"
  /\ UNCHANGED <<wsVars, dbPages, docStore, docInfo, currentPage, exportUi, uploadFrame>>

UploadDeleteCompletes ==
  /\ upload # <<>>
  /\ upload[1].step = "delete"
  /\ \E ok \in BOOLEAN :
       IF ok
         THEN /\ docStore' = deletePdf(docStore, upload[1].old)
              /\ dbPages' = DeletePageStates(dbPages, upload[1].old)
              /\ upload' = <<[upload[1] EXCEPT !.step = "store"]>>
              /\ UNCHANGED <<wsVars, docInfo, liveUrls, isLoading, lastError, currentPage,
                             exportUi>>
         ELSE UploadFails /\ UNCHANGED <<docStore, dbPages>>
  /\ UNCHANGED <<uploads, uploadFrame>>

\* storePdf; a failed chunk transaction leaves the metadata record behind.
UploadStoreCompletes ==
  /\ upload # <<>>
  /\ upload[1].step = "store"
  /\ \E outcome \in {"stored", "metadata fails", "chunk fails"} :
       CASE outcome = "stored" ->
              /\ docStore' = storePdf(docStore, upload[1].id, upload[1].file)
              /\ upload' = <<[upload[1] EXCEPT !.step = "parse"]>>
              /\ UNCHANGED <<wsVars, docInfo, liveUrls, isLoading, lastError, currentPage,
                             exportUi>>
         [] outcome = "metadata fails" -> UploadFails /\ UNCHANGED docStore
         [] outcome = "chunk fails" ->
              /\ docStore' = PutMetadata(docStore, upload[1].id, upload[1].file)
              /\ UploadFails
  /\ UNCHANGED <<dbPages, uploads, uploadFrame>>

\* pdfjsLib.getDocument(...).promise, then updatePdfMetadata is started.
UploadParseCompletes ==
  /\ upload # <<>>
  /\ upload[1].step = "parse"
  /\ IF upload[1].file.doc # <<>>
       THEN /\ upload' = <<[upload[1] EXCEPT !.step = "metadata",
                                             !.totalPages = Len(upload[1].file.doc)]>>
            /\ UNCHANGED <<wsVars, docInfo, liveUrls, isLoading, lastError, currentPage,
                           exportUi>>
       ELSE UploadFails
  /\ UNCHANGED <<docStore, dbPages, uploads, uploadFrame>>

UploadMetadataCompletes ==
  /\ upload # <<>>
  /\ upload[1].step = "metadata"
  /\ \E ok \in BOOLEAN :
       IF ok
         THEN /\ docStore' = updatePdfMetadata(docStore, upload[1].id, upload[1].totalPages)
              /\ upload' = <<[upload[1] EXCEPT !.step = "blob"]>>
              /\ UNCHANGED <<wsVars, docInfo, liveUrls, isLoading, lastError, currentPage,
                             exportUi>>
         ELSE UploadFails /\ UNCHANGED docStore
  /\ UNCHANGED <<dbPages, uploads, uploadFrame>>

\* getPdfBlob, URL.createObjectURL and setWorkspace; then navigateToPage(1)
\* and the effect on totalPages.
UploadBlobCompletes ==
  /\ upload # <<>>
  /\ upload[1].step = "blob"
  /\ IF BlobAvailable(docStore, upload[1].id)
       THEN /\ pdfId' = upload[1].id
            /\ pdfUrl' = upload[1].id
            /\ liveUrls' = liveUrls \cup {upload[1].id}
            /\ presets' = <<>>
            /\ pages' = <<>>
            /\ docInfo' = [pdfName |-> upload[1].file.name,
                           totalPages |-> upload[1].totalPages]
            /\ exportUi' = SyncRange(exportUi, upload[1].totalPages)
            /\ currentPage' = 1
            /\ upload' = <<>>
            /\ isLoading' = FALSE
            /\ UNCHANGED lastError
       ELSE UploadFails
  /\ UNCHANGED <<docStore, dbPages, uploads, uploadFrame>>

\* ------------------------------------------------------------------------
\* resetWorkspace and the cleanup of the loading effect (hooks/use-workspace.ts)

\* initialWorkspace: no document, no blob URL.
NoUrl == 0
NoDocInfo == [pdfName |-> "", totalPages |-> 0]

resetFrame == <<presetQ, pageQ, nextId, dbPresets, commits, gestures, selectedPresetId,
                gestureVars, displayVars, renderVars, exportVars, libVars, isLoading,
                upload, uploads, mounted>>

\* The synchronous part: the blob URL is revoked and deletePdf is awaited.
ResetWorkspace ==
  /\ mounted
  /\ ~isLoading
  /\ pdfId # NoPdf
  /\ upload = <<>>
  /\ resetTask = <<>>
  /\ liveUrls' = liveUrls \ {pdfUrl}
  /\ resetTask' = <<[old |-> pdfId]>>
  /\ UNCHANGED <<wsVars, dbPages, docStore, docInfo, lastError, currentPage, resetFrame>>

\* deletePdf settles; on success setWorkspace(initialWorkspace) and, in
\* handleReset, navigateToPage(1).
ResetCompletes ==
  /\ resetTask # <<>>
  /\ resetTask' = <<>>
  /\ \E ok \in BOOLEAN :
       IF ok
         THEN /\ docStore' = deletePdf(docStore, resetTask[1].old)
              /\ dbPages' = DeletePageStates(dbPages, resetTask[1].old)
              /\ pdfId' = NoPdf
              /\ pdfUrl' = NoUrl
              /\ presets' = <<>>
              /\ pages' = <<>>
              /\ docInfo' = NoDocInfo
              /\ currentPage' = 1
         ELSE UNCHANGED <<wsVars, dbPages, docStore, docInfo, currentPage>>
  /\ UNCHANGED <<liveUrls, lastError, resetFrame>>

\* The page is left: the cleanup of the effect that ran on the first render
\* revokes the blob URL of the workspace of that render, initialWorkspace.
Unmount ==
  /\ mounted
  /\ upload = <<>> /\ resetTask = <<>> /\ exportTask = <<>>
  /\ presetQ = <<>> /\ pageQ = <<>>
  /\ mounted' = FALSE
  /\ liveUrls' = liveUrls \ {NoUrl}
  /\ UNCHANGED <<wsVars, dbVars, queueVars, nextId, lastError, currentPage, commits,
                 gestures, selectedPresetId, gestureVars, displayVars, renderVars,
                 docStore, docInfo, isLoading, upload, uploads, resetTask, exportVars,
                 libVars>>

\* ------------------------------------------------------------------------
\* PdfCropperPage (pages/pdf-cropper.tsx): the export controls

\* What the export controls and handleExportCroppedPdf leave alone.
exportFrame == <<wsVars, dbVars, queueVars, nextId, currentPage, commits, gestures,
                 selectedPresetId, gestureVars, displayVars, renderVars, storeVars,
                 libVars>>

\* The page shows the sidebar: a document is loaded and the workspace is not
\* loading.
SidebarShown == mounted /\ ~isLoading /\ pdfId # NoPdf

\* onChange of the "export all pages" checkbox.
ToggleExportAll ==
  /\ SidebarShown
  /\ \E checked \in BOOLEAN :
       exportUi' = IF checked /\ docInfo.totalPages > 0
                     THEN [exportUi EXCEPT !.exportAllPages = checked, !.startPage = 1,
                                           !.endPage = docInfo.totalPages]
                     ELSE [exportUi EXCEPT !.exportAllPages = checked]
  /\ lastError' = "none"
  /\ UNCHANGED <<exportTask, downloads, exportFrame>>

\* onChange of the start page input, with the effect on [totalPages, startPage].
SetStartPage ==
  /\ SidebarShown
  /\ ~exportUi.exportAllPages
  /\ \E value \in 0..(docInfo.totalPages + 1) :
       LET total == docInfo.totalPages
           set == IF value >= 1
                    THEN [exportUi EXCEPT
                            !.startPage = Min(value, total),
                            !.endPage = IF value > exportUi.endPage THEN Min(value, total)
                                        ELSE @]
                    ELSE exportUi
       IN exportUi' = IF set.startPage # exportUi.startPage
                        THEN SyncRange(set, total)
                        ELSE set
  /\ lastError' = "none"
  /\ UNCHANGED <<exportTask, downloads, exportFrame>>

\* onChange of the end page input.
SetEndPage ==
  /\ SidebarShown
  /\ ~exportUi.exportAllPages
  /\ \E value \in 0..(docInfo.totalPages + 1) :
       exportUi' = IF value >= exportUi.startPage
                     THEN [exportUi EXCEPT !.endPage = Min(value, docInfo.totalPages)]
                     ELSE exportUi
  /\ lastError' = "none"
  /\ UNCHANGED <<exportTask, downloads, exportFrame>>

\* handleApplyPreset: a preset of the sidebar is applied to the current page.
ApplyClick ==
  /\ SidebarShown
  /\ \E id \in PresetIds(presets) : applyPreset(currentPage, id)
  /\ lastError' = "none"
  /\ UNCHANGED <<presetQ, nextId, apiFrame>>

\* A choice that takes the preset applied to the last page that has one.
PresetToUse_AnyPage(ps, pg) ==
  LET applied == {k \in DOMAIN pg : FindPreset(ps, pg[k]) # <<>>} IN
    IF applied # {}
      THEN FindPreset(ps, pg[CHOOSE k \in applied : \A j \in applied : j <= k])
      ELSE IF ps # <<>> THEN <<ps[1]>> ELSE <<>>

\* presetToUse: the preset applied to page 1, else the first preset.
PresetToUse(ps, pg) ==
  IF FindPreset(ps, AppliedOn(pg, 1)) # <<>> THEN FindPreset(ps, AppliedOn(pg, 1))
  ELSE IF ps # <<>> THEN <<ps[1]>>
  ELSE <<>>

\* The pageRange handleExportCroppedPdf passes to exportCroppedPdf.
HandlerRange(ui, pdfTotalPages) ==
  IF ~ui.exportAllPages /\ pdfTotalPages > 0
    THEN <<[startPage |-> Max(1, Min(ui.startPage, pdfTotalPages)),
            endPage |-> Max(1, Min(ui.endPage, pdfTotalPages))]>>
    ELSE <<>>

\* The two range tests of the handler, on the clamped values.
HandlerRangeRejected(ui, pdfTotalPages) ==
  /\ ~ui.exportAllPages
  /\ \/ pdfTotalPages = 0
     \/ LET start == Max(1, Min(ui.startPage, pdfTotalPages))
            end == Max(start, Min(ui.endPage, pdfTotalPages))
        IN \/ start < 1 \/ end < 1 \/ start > pdfTotalPages \/ end > pdfTotalPages
           \/ start > end

\* The export button is clicked: handleExportCroppedPdf up to its first await.
ExportClick ==
  /\ SidebarShown
  /\ presets # <<>>
  /\ ~exportUi.isExporting
  /\ exportTask = <<>>
  /\ Len(downloads) < MaxDownloads
  /\ LET presetToUse == PresetToUse(presets, pages) IN
       IF presetToUse = <<>>
         THEN /\ lastError' = "NoPreset"
              /\ UNCHANGED exportTask
         ELSE /\ lastError' = "none"
              /\ exportTask' = <<[step |-> "blob", preset |-> presetToUse[1], pdf |-> pdfId,
                                  ui |-> exportUi, totalPages |-> docInfo.totalPages,
                                  pdfName |-> docInfo.pdfName, doc |-> <<>>]>>
  /\ UNCHANGED <<exportUi, downloads, exportFrame>>

\* getPdfBlobForExport settles.  When getPdfBlob rejects, the handler ends
\* there: the await is outside its try block.
ExportBlobCompletes ==
  /\ exportTask # <<>>
  /\ exportTask[1].step = "blob"
  /\ LET t == exportTask[1] IN
       IF t.pdf = NoPdf
         THEN /\ lastError' = "NoPdf"
              /\ exportTask' = <<>>
              /\ UNCHANGED exportUi
         ELSE IF ~BlobAvailable(docStore, t.pdf)
           THEN /\ exportTask' = <<>>
                /\ UNCHANGED <<lastError, exportUi>>
           ELSE IF HandlerRangeRejected(t.ui, t.totalPages)
             THEN /\ lastError' = "InvalidRange"
                  /\ exportTask' = <<>>
                  /\ UNCHANGED exportUi
             ELSE /\ exportUi' = [exportUi EXCEPT !.isExporting = TRUE]
                  /\ exportTask' = <<[t EXCEPT !.step = "export",
                                               !.doc = docStore.chunks[t.pdf]]>>
                  /\ UNCHANGED lastError
  /\ UNCHANGED <<downloads, exportFrame>>

\* FileReader, exportCroppedPdf and downloadPdfBytes inside try / catch /
\* finally.
ExportCompletes ==
  /\ exportTask # <<>>
  /\ exportTask[1].step = "export"
  /\ LET t == exportTask[1] IN
       \E ok \in BOOLEAN :
         IF ok
           THEN /\ downloads' =
                     Append(downloads,
                            exportCroppedPdf(t.doc, Geometry(t.preset), t.pdfName,
                                             HandlerRange(t.ui, t.totalPages)))
                /\ UNCHANGED lastError
           ELSE /\ lastError' = "ExportFailed"
                /\ UNCHANGED downloads
  /\ exportUi' = [exportUi EXCEPT !.isExporting = FALSE]
  /\ exportTask' = <<>>
  /\ UNCHANGED exportFrame

\* ------------------------------------------------------------------------
\* Initial states and specifications
\* ------------------------------------------------------------------------
\* loadWorkspace has loaded a stored document with the presets stored for it.
InitWorkspace(stored) ==
  /\ pdfId = LoadedPdf
  /\ pdfUrl = 1
  /\ presets = stored
  /\ pages = <<>>
  /\ dbPresets = [i \in PresetIds(stored) |->
                   storeCropPreset(<<>>, LoadedPdf, FindPreset(stored, i)[1])[i]]
  /\ dbPages = <<>>
  /\ presetQ = <<>>
  /\ pageQ = <<>>
  /\ nextId = Len(stored)
  /\ lastError = "none"
  /\ currentPage = 1
  /\ commits = 0
  /\ gestures = 0
  /\ InitDocument

\* A preset of an earlier session: the one a draw from (0, 0) to (8, 1200) emits.
StoredPreset == [id |-> 1, name |-> 1, x |-> 0, y |-> 0, width |-> 8, height |-> 900]

\* useState initial values of PageCropper.
InitCropper ==
  /\ selectedPresetId = NoPreset
  /\ drag = <<>>
  /\ moveDrag = <<>>
  /\ resizeDrag = <<>>
  /\ isRendering = TRUE
  /\ imgSize = NoSize
  /\ displaySize = NoSize
  /\ overlayOffset = NoSize
  /\ cropBoxInfo = <<>>
  /\ domCanvas = <<>>
  /\ rafs = {}

NoStoredFile ==
  /\ pdfFile = <<>>
  /\ metaStore = <<>>
  /\ chunkStore = {}
  /\ blobOut = <<>>

NoLibraryCall ==
  /\ exportArgs = <<>>
  /\ exportOut = <<>>
  /\ percentArgs = <<>>
  /\ percentOut = <<>>
  /\ NoStoredFile

\* The hook alone: no editor is mounted.
InitHook ==
  /\ InitWorkspace(<<>>)
  /\ NoLibraryCall
  /\ InitCropper
  /\ inst = 0
  /\ mounts = 0
  /\ renders = {}

\* The editor is mounted on page 1 and its first render is in flight.
Init ==
  /\ \E stored \in {<<>>, <<StoredPreset>>} : InitWorkspace(stored)
  /\ NoLibraryCall
  /\ InitCropper
  /\ inst = 1
  /\ mounts = 1
  /\ renders = {[id |-> 1, inst |-> 1, url |-> 1, page |-> 1, cancelled |-> FALSE]}

NextHook ==
  \/ ApiCreatePreset
  \/ ApiDeletePreset
  \/ ApiUpdatePreset
  \/ ApiApplyPreset
  \/ ApiClearAppliedPreset
  \/ CreateCompletes
  \/ DeleteCompletes
  \/ UpdateCompletes
  \/ PageStateCompletes

SpecHook == InitHook /\ [][NextHook]_vars

\* The hook with one stored preset, driven through the operations on presets
\* and page states that the source contains.
InitName ==
  /\ InitWorkspace(<<StoredPreset>>)
  /\ NoLibraryCall
  /\ InitCropper
  /\ inst = 0
  /\ mounts = 0
  /\ renders = {}

NextName ==
  \/ ApiUpdatePresetName
  \/ NameReadCompletes
  \/ NameWriteCompletes
  \/ ApiDeletePreset
  \/ DeleteCompletes
  \/ ApiApplyPreset
  \/ PageStateCompletes

SpecName == InitName /\ [][NextName]_vars

\* The editor after a render, with the canvas and display sizes the render
\* and the layout can give (not yet measured, measured at canvas size, scaled
\* down by the layout), and the pointer inside and outside the overlay.
PosSizes ==
  { [img |-> NoSize, disp |-> NoSize],
    [img |-> [w |-> 900, h |-> 1200], disp |-> NoSize],
    [img |-> [w |-> 900, h |-> 1200], disp |-> [w |-> 900, h |-> 1200]],
    [img |-> [w |-> 900, h |-> 1200], disp |-> [w |-> 450, h |-> 600]],
    [img |-> [w |-> 900, h |-> 600], disp |-> [w |-> 300, h |-> 200]] }

PosPointers == {<<-5, -7>>, <<0, 0>>, <<150, 100>>, <<450, 600>>, <<901, 1201>>, <<2000, 90>>}

InitPos ==
  /\ InitWorkspace(<<>>)
  /\ NoLibraryCall
  /\ selectedPresetId = NoPreset
  /\ drag = <<>>
  /\ moveDrag = <<>>
  /\ resizeDrag = <<>>
  /\ isRendering = FALSE
  /\ \E sz \in PosSizes : imgSize = sz.img /\ displaySize = sz.disp
  /\ overlayOffset = NoSize
  /\ cropBoxInfo = <<>>
  /\ domCanvas = <<>>
  /\ rafs = {}
  /\ inst = 1
  /\ mounts = 1
  /\ renders = {}

PosMouseDown ==
  /\ inst # 0
  /\ \E pt \in PosPointers :
       LET r == getRelativePos(pt[1], pt[2]) IN OnCanvas(r) /\ handleMouseDown(r)

PosMouseMove ==
  /\ inst # 0
  /\ \E pt \in PosPointers : handleMouseMove(getRelativePos(pt[1], pt[2]))

NextPos ==
  \/ PosMouseDown
  \/ PosMouseMove
  \/ MouseUp
  \/ CreateCompletes

SpecPos == InitPos /\ [][NextPos]_vars

Next ==
  \/ RenderCompletes
  \/ RenderFails
  \/ RafFires
  \/ CanvasMouseDown
  \/ PresetMouseDown
  \/ HandleMouseDown
  \/ MouseMove
  \/ MouseUp
  \/ MouseLeave
  \/ SelectPreset
  \/ DeleteClick
  \/ CreateCompletes
  \/ DeleteCompletes
  \/ UpdateCompletes

Spec == Init /\ [][Next]_vars

NextRender ==
  \/ RenderCompletes
  \/ RenderFails
  \/ RafFires
  \/ Navigate
  \/ ReplaceDocument

SpecRender == Init /\ [][NextRender]_vars

\* Every promise a render awaits settles: a render in flight completes or
\* fails.  Nothing is assumed about the user's actions.
RenderSettles == RenderCompletes \/ RenderFails

SpecRenderLive == Init /\ [][NextRender]_vars /\ WF_vars(RenderSettles)

\* The editor with the document replaced under it: a render starts while the
\* presets are on display.
NextBusy ==
  \/ RenderCompletes
  \/ RenderFails
  \/ RafFires
  \/ ReplaceDocument
  \/ CanvasMouseDown
  \/ PresetMouseDown
  \/ HandleMouseDown
  \/ MouseMove
  \/ MouseUp
  \/ SelectPreset

SpecBusy == Init /\ [][NextBusy]_vars

\* The editor with one stored preset and the pointer on the corners of the
\* stored presets, for the resize gestures.
ExamplePreset == [id |-> 1, name |-> 1, x |-> 180, y |-> 180, width |-> 270, height |-> 270]
\* The one a draw from (892, 0) to (900, 1200) emits.
EdgePreset == [id |-> 1, name |-> 1, x |-> 892, y |-> 0, width |-> 8, height |-> 900]
ResizePointers == {<<180, 240>>, <<450, 600>>, <<540, 660>>, <<900, 1200>>}

ResizeHandleDown ==
  /\ inst # 0
  /\ \E pt \in ResizePointers, id \in PresetIds(presets), h \in CornerHandles :
       LET r == getRelativePos(pt[1], pt[2]) IN
         OnHandle(id, h, r) /\ handlePresetResizeStart(id, h, r)

ResizeMouseMove ==
  /\ inst # 0
  /\ \E pt \in ResizePointers : handleMouseMove(getRelativePos(pt[1], pt[2]))

InitResize ==
  /\ \E stored \in {<<ExamplePreset>>, <<EdgePreset>>} : InitWorkspace(stored)
  /\ NoLibraryCall
  /\ InitCropper
  /\ inst = 1
  /\ mounts = 1
  /\ renders = {[id |-> 1, inst |-> 1, url |-> 1, page |-> 1, cancelled |-> FALSE]}

NextResize ==
  \/ RenderCompletes
  \/ RenderFails
  \/ RafFires
  \/ SelectPreset
  \/ ResizeHandleDown
  \/ ResizeMouseMove
  \/ MouseUp
  \/ UpdateCompletes

SpecResize == InitResize /\ [][NextResize]_vars

\* The page with a stored document: uploads, page states and exports.
InitDoc ==
  /\ \E stored \in {<<>>, <<StoredPreset>>} : InitWorkspace(stored)
  /\ NoLibraryCall
  /\ InitCropper
  /\ inst = 0
  /\ mounts = 0
  /\ renders = {}

NextDoc ==
  \/ UploadPdf
  \/ UploadDeleteCompletes
  \/ UploadStoreCompletes
  \/ UploadParseCompletes
  \/ UploadMetadataCompletes
  \/ UploadBlobCompletes
  \/ ResetWorkspace
  \/ ResetCompletes
  \/ Unmount
  \/ ToggleExportAll
  \/ SetStartPage
  \/ SetEndPage
  \/ ExportClick
  \/ ExportBlobCompletes
  \/ ExportCompletes
  \/ ApplyClick
  \/ PageStateCompletes

SpecDoc == InitDoc /\ [][NextDoc]_vars

\* The page with a stored document that has two presets, or the second of
\* them only, for the choice of the exported rectangle.
OtherPreset == [id |-> 2, name |-> 2, x |-> 90, y |-> 90, width |-> 450, height |-> 450]

InitExport ==
  /\ \E stored \in {<<StoredPreset, OtherPreset>>, <<OtherPreset>>} : InitWorkspace(stored)
  /\ NoLibraryCall
  /\ InitCropper
  /\ inst = 0
  /\ mounts = 0
  /\ renders = {}

NextExport ==
  \/ ApiApplyPreset
  \/ ApiClearAppliedPreset
  \/ PageStateCompletes
  \/ ExportClick
  \/ ExportBlobCompletes
  \/ ExportCompletes

SpecExport == InitExport /\ [][NextExport]_vars

\* exportCroppedPdf called once on arguments of every shape.
InitLib ==
  /\ InitWorkspace(<<>>)
  /\ InitCropper
  /\ inst = 0
  /\ mounts = 0
  /\ renders = {}
  /\ exportArgs \in {<<c>> : c \in ExportCalls}
  /\ exportOut = <<>>
  /\ percentArgs = <<>>
  /\ percentOut = <<>>
  /\ NoStoredFile

NextLib ==
  \/ CallExportCroppedPdf

SpecLib == InitLib /\ [][NextLib]_vars

\* getCropBoxPercentages called once on every preset and every box
\* information.
InitBox ==
  /\ InitWorkspace(<<>>)
  /\ InitCropper
  /\ inst = 0
  /\ mounts = 0
  /\ renders = {}
  /\ exportArgs = <<>>
  /\ exportOut = <<>>
  /\ percentArgs \in {<<[preset |-> p, info |-> b]>> : p \in BoxPresets, b \in BoxInfos}
  /\ percentOut = <<>>
  /\ NoStoredFile

NextBox ==
  \/ CallGetCropBoxPercentages

SpecBox == InitBox /\ [][NextBox]_vars

\* storePdf and then getPdfBlob on files of every length.
InitBlob ==
  /\ InitWorkspace(<<>>)
  /\ InitCropper
  /\ inst = 0
  /\ mounts = 0
  /\ renders = {}
  /\ exportArgs = <<>>
  /\ exportOut = <<>>
  /\ percentArgs = <<>>
  /\ percentOut = <<>>
  /\ pdfFile \in {<<f>> : f \in ByteFiles}
  /\ metaStore = <<>>
  /\ chunkStore = {}
  /\ blobOut = <<>>

NextBlob ==
  \/ StoreFileMetadata
  \/ StoreFileChunk
  \/ CallGetPdfBlob

SpecBlob == InitBlob /\ [][NextBlob]_vars

\* ------------------------------------------------------------------------
\* Properties of the workspace hook (SpecHook)
\* ------------------------------------------------------------------------

\* A step in which the delete request at the head of the queue completes.
DeleteCompletesStep ==
  /\ presetQ # <<>>
  /\ Head(presetQ).kind = "delete"
  /\ presetQ' = Tail(presetQ)

\* C1: createPreset called (an id was drawn for the new preset) while the
\* preset count is at or above the maximum raises LimitExceeded and changes
\* neither the persisted presets, nor the in-memory list, nor issues a request.
C1_CreateAtLimitFails ==
  [][(nextId' # nextId /\ Len(presets) >= MAX_PRESETS_PER_PDF)
       => (/\ lastError' = "LimitExceeded"
           /\ dbPresets' = dbPresets
           /\ presets' = presets
           /\ presetQ' = presetQ)]_vars

C1_Witness ==
  /\ lastError = "LimitExceeded"
  /\ Len(presets) >= MAX_PRESETS_PER_PDF
  /\ DOMAIN dbPresets # {}

\* C3: when deletePreset(id) completes, preset id is gone from the list, every
\* other preset is kept as it was, the pages whose applied preset was id have
\* none, and every other page keeps its applied preset.
C3_DeleteClearsExactlyItsPages ==
  [][DeleteCompletesStep =>
       LET id == Head(presetQ).id IN
         /\ id \notin PresetIds(presets')
         /\ \A i \in 1..Len(presets) :
              presets[i].id # id => \E j \in 1..Len(presets') : presets'[j] = presets[i]
         /\ \A j \in 1..Len(presets') : \E i \in 1..Len(presets) : presets[i] = presets'[j]
         /\ DOMAIN pages' = DOMAIN pages
         /\ \A k \in DOMAIN pages :
              pages'[k] = (IF pages[k] = id THEN NoPreset ELSE pages[k])]_vars

C3_Witness ==
  /\ presetQ # <<>>
  /\ Head(presetQ).kind = "delete"
  /\ Head(presetQ).id \in PresetIds(presets)
  /\ Len(presets) >= 2
  /\ \E k1, k2 \in DOMAIN pages :
       /\ pages[k1] = Head(presetQ).id
       /\ pages[k2] # Head(presetQ).id
       /\ pages[k2] # NoPreset

\* C4: once deletePreset(id) has completed, no persisted page state of the
\* document references id (what getAllPageStates would load).
C4_NoPersistedReferenceAfterDelete ==
  [][(DeleteCompletesStep /\ Head(presetQ).id \in PresetIds(presets)) =>
       LET id == Head(presetQ).id
           stored == getAllPageStates(dbPages', Head(presetQ).pdf)
       IN \A pn \in DOMAIN stored : stored[pn] # id]_vars

\* ------------------------------------------------------------------------
\* Properties of the editor (Spec) and of the render life cycle (SpecRender)
\* ------------------------------------------------------------------------

\* A step in which a request is handed to the cropPresets store.
Issued == Len(presetQ') = Len(presetQ) + 1

\* C2: in every reachable state the number of presets of the current document,
\* in memory and in the persisted store, is at most the configured maximum.
C2_PresetCountWithinLimit ==
  /\ Len(presets) <= MAX_PRESETS_PER_PDF
  /\ Cardinality(getCropPresets(dbPresets, pdfId)) <= MAX_PRESETS_PER_PDF

\* A step in which the update request at the head of the queue completes for a
\* preset that exists.
UpdateCompletesStep ==
  /\ presetQ # <<>>
  /\ Head(presetQ).kind = "update"
  /\ presetQ' = Tail(presetQ)
  /\ Head(presetQ).id \in PresetIds(presets)

\* C5: when updateGeometry(presetId, partialRect) completes, the resulting
\* rectangle has been validated: a rectangle that violates the preset
\* invariant raises InvalidGeometry and leaves the stored geometry as it was; a
\* valid one is the stored geometry afterwards, in memory and in the store.
C5_UpdateGeometryRevalidates ==
  [][UpdateCompletesStep =>
       LET id == Head(presetQ).id
           old == CHOOSE i \in 1..Len(presets) : presets[i].id = id
           u == Head(presetQ).updates
           g == [x |-> u.x, y |-> u.y,
                 width |-> IF u.sized THEN u.width ELSE presets[old].width,
                 height |-> IF u.sized THEN u.height ELSE presets[old].height]
           valid == /\ 0 <= g.x /\ g.x <= One /\ 0 <= g.y /\ g.y <= One
                    /\ 0 < g.width /\ g.width <= One - g.x
                    /\ 0 < g.height /\ g.height <= One - g.y
       IN IF valid
            THEN /\ Geometry(presets'[old]) = g
                 /\ Geometry(dbPresets'[id]) = g
            ELSE /\ lastError' = "InvalidGeometry"
                 /\ presets' = presets
                 /\ dbPresets' = dbPresets]_vars

C5_Witness ==
  /\ lastError = "InvalidGeometry"
  /\ \E i \in 1..Len(presets) : Geometry(presets[i]) \notin ApiRects

\* C6: every geometry the gestures hand to the store (the preset emitted at
\* draw pointer-up, the preset with the update committed at move / resize
\* pointer-up) satisfies 0 <= x <= 1, 0 <= y <= 1, 0 < width <= 1 - x and
\* 0 < height <= 1 - y.
C6_HandedGeometryValid ==
  [][Issued =>
       LET e == presetQ'[Len(presetQ')] IN
         /\ e.kind = "create" => ValidGeometry(Geometry(e.preset))
         /\ e.kind = "update" =>
              /\ e.id \in PresetIds(presets)
              /\ ValidGeometry(MergeUpdates(FindPreset(presets, e.id)[1], e.updates))]_vars

\* A move has been committed whose origin was clamped to the right edge.
C6_Witness ==
  \E i \in 1..Len(presetQ) :
    /\ presetQ[i].kind = "update"
    /\ ~presetQ[i].updates.sized
    /\ presetQ[i].id \in PresetIds(presets)
    /\ presetQ[i].updates.x > 0
    /\ presetQ[i].updates.x + FindPreset(presets, presetQ[i].id)[1].width = One

\* C7: in every reachable state at most one of Drawing, Moving and Resizing is
\* active.
C7_AtMostOneGesture ==
  /\ ~(drag # <<>> /\ moveDrag # <<>>)
  /\ ~(drag # <<>> /\ resizeDrag # <<>>)
  /\ ~(moveDrag # <<>> /\ resizeDrag # <<>>)

\* A step that ends the draw gesture.
DrawEnds == drag # <<>> /\ drag' = <<>>

\* C8 as stated: a draw gesture emits a preset only if its ratio width and
\* height each exceed the minimum drag size; a draw that ends otherwise
\* creates nothing, raises nothing and leaves the store unchanged.
C8_CreateOnlyAboveMinDrag ==
  [][DrawEnds =>
       IF /\ drag[1].w * imgSize.w > MIN_DRAG_SIZE * One
          /\ drag[1].h * imgSize.h > MIN_DRAG_SIZE * One
         THEN TRUE
         ELSE /\ presetQ' = presetQ
              /\ nextId' = nextId
              /\ lastError' = "none"
              /\ presets' = presets
              /\ dbPresets' = dbPresets]_vars

\* C8 as the code has it: a draw gesture emits a preset only if its ratio width
\* and height are each at least the minimum drag size (8 canvas pixels as a
\* ratio of the canvas width / height); a draw that ends otherwise creates
\* nothing, raises nothing and leaves the store unchanged.
C8_CreateOnlyFromMinDrag ==
  [][DrawEnds =>
       IF /\ drag[1].w * imgSize.w >= MIN_DRAG_SIZE * One
          /\ drag[1].h * imgSize.h >= MIN_DRAG_SIZE * One
         THEN TRUE
         ELSE /\ presetQ' = presetQ
              /\ nextId' = nextId
              /\ lastError' = "none"
              /\ presets' = presets
              /\ dbPresets' = dbPresets]_vars

\* A preset whose width and height are exactly the minimum drag size has been
\* emitted.
C8_Witness ==
  \E i \in 1..Len(presetQ) :
    /\ presetQ[i].kind = "create"
    /\ presetQ[i].preset.width * imgSize.w = MIN_DRAG_SIZE * One
    /\ presetQ[i].preset.height * imgSize.h = MIN_DRAG_SIZE * One

\* C9: a pointer leave ends every gesture without a request to the store and
\* without a change of the presets, and a pointer-up that finds the editor
\* idle commits nothing.
C9_LeaveCancelsGesture ==
  [][/\ MouseLeave =>
          /\ drag' = <<>> /\ moveDrag' = <<>> /\ resizeDrag' = <<>>
          /\ presetQ' = presetQ
          /\ presets' = presets
          /\ dbPresets' = dbPresets
     /\ (MouseUp /\ drag = <<>> /\ moveDrag = <<>> /\ resizeDrag = <<>>) =>
          /\ presetQ' = presetQ
          /\ presets' = presets
          /\ dbPresets' = dbPresets]_vars

\* A move is under way whose pointer-up would commit a new origin.
C9_Witness ==
  /\ moveDrag # <<>>
  /\ \E i \in 1..Len(presets) :
       /\ presets[i].id = moveDrag[1].presetId
       /\ presets[i].x # moveDrag[1].startX

\* C10: nothing a superseded render produces is written to the display state:
\* neither when its awaits end nor when a callback it scheduled runs.
C10_NoWriteFromSupersededRender ==
  [][(\/ \E t \in renders : t.cancelled /\ renders' = renders \ {t}
      \/ \E f \in rafs : f.cancelled /\ rafs' = rafs \ {f})
       => displayVars' = displayVars]_vars

\* ------------------------------------------------------------------------
\* The pages a range selects, as page numbers of the source, counted from 1.
RangePages(total, range) ==
  LET first == Max(1, Min(range.startPage, total))
      last == Max(first, Min(range.endPage, total))
  IN [i \in 1..(last - first + 1) |-> first + i - 1]

PageNumbers(out) == [i \in 1..Len(out.pages) |-> out.pages[i] + 1]

\* C11: without a range the exported document holds every page of the source
\* in source order; with a range {start, end} it holds the pages start'..end'
\* in source order, start' = max(1, min(start, total)) and
\* end' = max(start', min(end, total)), that is end' - start' + 1 pages.
C11_ExportSelectsClampedRange ==
  exportOut # <<>> =>
    LET call == exportArgs[1]
        total == Len(call.doc)
    IN IF call.pageRange = <<>>
         THEN PageNumbers(exportOut[1]) = [i \in 1..total |-> i]
         ELSE PageNumbers(exportOut[1]) = RangePages(total, call.pageRange[1])

\* The range {2, 2} on a 5-page document gives the one page 2.
C11_Witness ==
  /\ exportOut # <<>>
  /\ Len(exportArgs[1].doc) = 5
  /\ exportArgs[1].pageRange = <<[startPage |-> 2, endPage |-> 2]>>
  /\ PageNumbers(exportOut[1]) = <<2>>

ValidRange(total, range) ==
  /\ 1 <= range.startPage
  /\ range.startPage <= range.endPage
  /\ range.endPage <= total

\* C12: an export requested with an invalid page range (start > end, or
\* start or end outside [1, total]) is rejected before any page is copied:
\* exportCroppedPdf returns a document only for a valid range.
C12_InvalidRangeRejected ==
  (exportOut # <<>> /\ exportArgs[1].pageRange # <<>>) =>
    ValidRange(Len(exportArgs[1].doc), exportArgs[1].pageRange[1])

\* The name without one trailing ".pdf" in any mix of cases.
PdfSuffixes == {a \o b \o c \o d : a \in {"."}, b \in {"p", "P"}, c \in {"d", "D"},
                                  d \in {"f", "F"}}
Trimmed(name) ==
  IF Len(name) >= 4 /\ SubSeq(name, Len(name) - 3, Len(name)) \in PdfSuffixes
    THEN SubSeq(name, 1, Len(name) - 4)
    ELSE name

\* C13: the exported file is named after the original with one trailing
\* ".pdf" (in any case) removed, then "_cropped", then "_page{N}" for a range
\* of one page, "_pages{start}-{end}" for a range of several (clamped values)
\* or nothing without a range, then ".pdf".
C13_ExportFilename ==
  exportOut # <<>> =>
    LET call == exportArgs[1]
        total == Len(call.doc)
        sel == RangePages(total, call.pageRange[1])
        suffix == IF call.pageRange = <<>> THEN ""
                  ELSE IF Len(sel) = 1 THEN "_page" \o ToString(sel[1])
                  ELSE "_pages" \o ToString(sel[1]) \o "-" \o ToString(sel[Len(sel)])
    IN exportOut[1].filename = Trimmed(call.originalFilename) \o "_cropped" \o suffix \o ".pdf"

\* "a.PDf" with the range {2, 6} on 5 pages is exported as a_cropped_pages2-5.pdf.
C13_Witness ==
  /\ exportOut # <<>>
  /\ exportArgs[1].originalFilename = "a.PDf"
  /\ Len(exportArgs[1].doc) = 5
  /\ exportArgs[1].pageRange = <<[startPage |-> 2, endPage |-> 6]>>
  /\ exportOut[1].filename = "a_cropped_pages2-5.pdf"

\* The size of the page the i-th exported page was copied from.
SourcePage(i) == exportArgs[1].doc[exportOut[1].pages[i] + 1]
Point == One

\* C14 as stated: on every exported page of size W x H the crop box is
\* x = preset.x * W, y = H - preset.y * H - preset.height * H,
\* width = preset.width * W, height = preset.height * H.
C14_CropBoxIsScaledPreset ==
  exportOut # <<>> =>
    \A i \in 1..Len(exportOut[1].boxes) :
      LET W == SourcePage(i).width
          H == SourcePage(i).height
          preset == exportArgs[1].preset
      IN exportOut[1].boxes[i] =
           [x |-> preset.x * W, y |-> (H * One) - (preset.y * H) - (preset.height * H),
            width |-> preset.width * W, height |-> preset.height * H]

\* C14: on every exported page the crop box is computed from that page's own
\* W and H: x = preset.x * W, y = H - preset.y * H - preset.height * H,
\* width = preset.width * W and height = preset.height * H, each of the two
\* sizes raised to 1 point when it is smaller.
C14_CropBoxFromOwnPageSize ==
  exportOut # <<>> =>
    \A i \in 1..Len(exportOut[1].boxes) :
      LET W == SourcePage(i).width
          H == SourcePage(i).height
          preset == exportArgs[1].preset
      IN exportOut[1].boxes[i] =
           [x |-> preset.x * W, y |-> (H * One) - (preset.y * H) - (preset.height * H),
            width |-> Max(Point, preset.width * W),
            height |-> Max(Point, preset.height * H)]

\* {0.1, 0.1, 0.5, 0.5} on a 612 x 792 page followed by a 72 x 72 page:
\* x = 61.2, y = 316.8, width = 306, height = 396 on the first,
\* x = 7.2, y = 28.8, width = 36, height = 36 on the second.
C14_Witness ==
  /\ exportOut # <<>>
  /\ exportArgs[1].preset = [x |-> 90, y |-> 90, width |-> 450, height |-> 450]
  /\ exportArgs[1].pageRange = <<>>
  /\ Len(exportArgs[1].doc) = 2
  /\ exportOut[1].boxes =
       <<[x |-> 55080, y |-> 285120, width |-> 275400, height |-> 356400],
         [x |-> 6480, y |-> 25920, width |-> 32400, height |-> 32400]>>

\* C15: for every valid preset and every page size the crop box lies within
\* the page, 0 <= x <= pageWidth, 0 <= y <= pageHeight,
\* width <= pageWidth - x and height <= pageHeight - y, with width and height
\* of at least 1 point.
C15_CropBoxWithinPage ==
  exportOut # <<>> =>
    \A i \in 1..Len(exportOut[1].boxes) :
      LET pageWidth == SourcePage(i).width * One
          pageHeight == SourcePage(i).height * One
          box == exportOut[1].boxes[i]
      IN /\ 0 <= box.x /\ box.x <= pageWidth
         /\ 0 <= box.y /\ box.y <= pageHeight
         /\ box.width <= pageWidth - box.x
         /\ box.height <= pageHeight - box.y
         /\ box.width >= Point
         /\ box.height >= Point

\* The ratio rectangle r is what a crop box maps back to on a page of the
\* given size: x = box.x / W, width = box.width / W, height = box.height / H
\* and y = (H - box.y - box.height) / H, without rounding.
MapsBackTo(box, page, r) ==
  /\ box.x = r.x * page.width
  /\ box.width = r.width * page.width
  /\ box.height = r.height * page.height
  /\ (page.height * One) - box.y - box.height = r.y * page.height

\* C16: every ratio rectangle r with 0 <= x, 0 <= y, x + width <= 1 and
\* y + height <= 1, mapped to PDF points on a page as applyCropToPage does
\* (clamps included) and mapped back with the same page size, gives r again.
C16_RatioRoundTrip ==
  exportOut # <<>> =>
    \A i \in 1..Len(exportOut[1].boxes) :
      MapsBackTo(exportOut[1].boxes[i], SourcePage(i), exportArgs[1].preset)

\* C17: while a preset is being resized the edges opposite the dragged
\* handle stay where they were at the start of the gesture (se: the origin;
\* nw: right and bottom edge; ne: left and bottom; sw: right and top;
\* n, s, e, w: the opposite edge and the whole other axis), for every valid
\* starting preset, those narrower than 0.01 or closer than 0.01 to a page
\* border included.
C17_ResizeKeepsOppositeEdges ==
  resizeDrag # <<>> =>
    LET rd == resizeDrag[1]
        hd == rd.handle
    IN /\ hd \in {"ne", "se", "e"} => rd.currentX = rd.startPresetX
       /\ hd \in {"nw", "sw", "w"} =>
            rd.currentX + rd.currentW = rd.startPresetX + rd.startPresetW
       /\ hd \in {"sw", "se", "s"} => rd.currentY = rd.startPresetY
       /\ hd \in {"nw", "ne", "n"} =>
            rd.currentY + rd.currentH = rd.startPresetY + rd.startPresetH
       /\ hd \in {"n", "s"} =>
            rd.currentX = rd.startPresetX /\ rd.currentW = rd.startPresetW
       /\ hd \in {"e", "w"} =>
            rd.currentY = rd.startPresetY /\ rd.currentH = rd.startPresetH

\* A pointer-move at ratio position r while the se handle is dragged.
SeMoveStep(r) ==
  /\ resizeDrag # <<>>
  /\ resizeDrag[1].handle = "se"
  /\ handleMouseMove(r)

\* A pointer-up that commits the resize by the se handle.
SeCommitStep ==
  /\ resizeDrag # <<>>
  /\ resizeDrag[1].handle = "se"
  /\ handleMouseUp
  /\ Issued

\* C18: dragging the se handle by (dx, dy) from a preset {x, y, w, h} gives
\* width = clamp(w + dx, 0.01, 1 - x) and height = clamp(h + dy, 0.01, 1 - y)
\* with the origin unchanged, and pointer-up commits exactly that geometry.
C18_SeResizeFromFixedOrigin ==
  [][/\ \A pt \in ResizePointers :
          LET r == getRelativePos(pt[1], pt[2])
              rd == resizeDrag[1]
          IN SeMoveStep(r) =>
               /\ resizeDrag'[1].currentW =
                    clamp(rd.startPresetW + (r.x - rd.startX), MinSize, One - rd.startPresetX)
               /\ resizeDrag'[1].currentH =
                    clamp(rd.startPresetH + (r.y - rd.startY), MinSize, One - rd.startPresetY)
               /\ resizeDrag'[1].currentX = rd.startPresetX
               /\ resizeDrag'[1].currentY = rd.startPresetY
     /\ SeCommitStep =>
          presetQ'[Len(presetQ')].updates =
            [x |-> resizeDrag[1].currentX, y |-> resizeDrag[1].currentY, sized |-> TRUE,
             width |-> resizeDrag[1].currentW, height |-> resizeDrag[1].currentH]]_vars

\* handleExportCroppedPdf ends at getPdfBlobForExport for want of the document.
ExportEndsWithoutDocument ==
  /\ exportTask # <<>>
  /\ exportTask[1].step = "blob"
  /\ exportTask[1].pdf = NoPdf \/ ~BlobAvailable(docStore, exportTask[1].pdf)
  /\ exportTask' # exportTask

ExportMessages == {"NoPreset", "NoPdf"}

\* C19: when the workspace has no preset or the source document is
\* unavailable (none loaded, or its bytes cannot be obtained) the export is
\* blocked before any page is copied or downloaded, a message is shown to the
\* user and the exporting flag ends false.
C19_BlockedExportIsReported ==
  [][/\ (ExportClick /\ PresetToUse(presets, pages) = <<>>) =>
          /\ exportTask' = <<>>
          /\ lastError' \in ExportMessages
          /\ ~exportUi'.isExporting
     /\ ExportEndsWithoutDocument =>
          /\ exportTask' = <<>>
          /\ downloads' = downloads
          /\ lastError' \in ExportMessages
          /\ ~exportUi'.isExporting]_vars

\* uploadPdf gives up.
UploadFailsStep == upload # <<>> /\ upload' = <<>> /\ lastError' = "UploadFailed"

\* C20: when a step of uploadPdf fails the prior state is intact: the bytes
\* and metadata of the previous document and its page states are still in
\* the stores, its display handle is still valid, and nothing of the new
\* document remains persisted.
C20_FailedUploadKeepsPriorState ==
  [][UploadFailsStep =>
       /\ BlobAvailable(docStore', pdfId)
       /\ \A pg \in DOMAIN pages :
            pages[pg] # NoPreset => <<pdfId, pg>> \in DOMAIN dbPages'
       /\ pdfUrl \in liveUrls'
       /\ upload[1].id \notin DOMAIN docStore'.metadata
       /\ upload[1].id \notin DOMAIN docStore'.chunks]_vars

\* The workspace passes from one document to another or to none.
Superseded == pdfId # NoPdf /\ pdfId' # pdfId

\* C21: after resetWorkspace or a successful replacement upload nothing
\* persisted under the previous document id remains (chunks, metadata, page
\* states, crop presets), and the new workspace has no presets and no page
\* states.
C21_NothingLeftOfPreviousDocument ==
  [][Superseded =>
       /\ pdfId \notin DOMAIN docStore'.metadata
       /\ pdfId \notin DOMAIN docStore'.chunks
       /\ \A k \in DOMAIN dbPages' : k[1] # pdfId
       /\ getCropPresets(dbPresets', pdfId) = {}
       /\ presets' = <<>>
       /\ pages' = <<>>]_vars

\* C22: at most one blob URL is live, and it is the one the mounted
\* workspace holds: the URL of a superseded document and the URL of a
\* workspace that has been torn down are revoked.
C22_OnlyTheCurrentUrlIsLive ==
  liveUrls \subseteq (IF mounted /\ pdfId # NoPdf THEN {pdfUrl} ELSE {})

\* A rectangle of at least the minimum size that lies within the page.
WithinPage(c) ==
  /\ c.w >= MinSize /\ c.h >= MinSize
  /\ c.x >= 0 /\ c.y >= 0
  /\ c.x + c.w <= One /\ c.y + c.h <= One

\* A pointer-move at ratio position r during a resize gesture.
ResizeMoveStep(r) == resizeDrag # <<>> /\ handleMouseMove(r)

\* C23: at every pointer-move of a resize gesture the candidate rectangle has
\* width and height of at least 0.01 and lies within the page, whichever
\* handle is dragged, wherever the pointer is and whatever valid preset the
\* gesture started from.
C23_ResizeCandidateWithinPage ==
  [][\A pt \in ResizePointers :
       LET r == getRelativePos(pt[1], pt[2]) IN
         ResizeMoveStep(r) =>
           /\ ValidGeometry([x |-> resizeDrag[1].startPresetX, y |-> resizeDrag[1].startPresetY,
                             width |-> resizeDrag[1].startPresetW,
                             height |-> resizeDrag[1].startPresetH])
           /\ WithinPage([x |-> resizeDrag'[1].currentX, y |-> resizeDrag'[1].currentY,
                          w |-> resizeDrag'[1].currentW, h |-> resizeDrag'[1].currentH])
           /\ \A hd \in ResizeHandles :
                WithinPage(ResizeCandidate([resizeDrag[1] EXCEPT !.handle = hd], r))]_vars

\* A resize of the preset on the right border has been floored to the minimum
\* width and pushed back inside the page.
C23_Witness ==
  /\ resizeDrag # <<>>
  /\ resizeDrag[1].startPresetW < MinSize
  /\ resizeDrag[1].currentW = MinSize
  /\ resizeDrag[1].currentX + resizeDrag[1].currentW = One
  /\ resizeDrag[1].currentX # resizeDrag[1].startPresetX

\* The editor is Moving.
Moving == moveDrag # <<>> /\ resizeDrag = <<>>

\* Pointer-down on the body of preset id at ratio position r starts a move.
MoveStarts(id, r) == moveDrag = <<>> /\ overlayMouseDown(id, r) /\ moveDrag' # <<>>

\* A pointer-move at ratio position r, and the pointer-up, of a move gesture.
MoveStep(r) == Moving /\ handleMouseMove(r)
MoveEnds == Moving /\ handleMouseUp

BodyDown(id, r) == OnBody(id, r) /\ overlayMouseDown(id, r)

\* C25: pointer-down on the body of a preset that is not the selected one
\* only changes the selection and starts no gesture; pointer-down on the body
\* of the selected preset starts Moving and never Drawing.
C25_BodyPointerDown ==
  [][\A pt \in Pointers, id \in Ids :
       LET r == getRelativePos(pt[1], pt[2]) IN
         BodyDown(id, r) =>
           IF id # selectedPresetId
             THEN /\ selectedPresetId' = id
                  /\ UNCHANGED <<drag, moveDrag, resizeDrag, presets, presetQ>>
             ELSE /\ moveDrag' # <<>>
                  /\ moveDrag'[1].presetId = id
                  /\ UNCHANGED <<drag, resizeDrag, selectedPresetId, presets, presetQ>>]_vars

\* The selected preset is being moved and nothing is being drawn.
C25_Witness ==
  /\ moveDrag # <<>>
  /\ moveDrag[1].presetId = selectedPresetId
  /\ drag = <<>>
  /\ resizeDrag = <<>>
  /\ gestures = 1

\* The page-state request at the head of the queue completes.
PageStateCompletesStep == pageQ # <<>> /\ pageQ' = Tail(pageQ)

\* A page-state request is issued.
PageStateIssued == Len(pageQ') = Len(pageQ) + 1

\* The applied preset persisted for a page of a document.
StoredOn(db, pdf, page) == IF <<pdf, page>> \in DOMAIN db THEN db[<<pdf, page>>] ELSE NoPreset

\* C26: applyPreset(page, id) sets, and clearAppliedPreset(page) clears, the
\* applied preset of that page only, whether or not id names an existing
\* preset; the preset list and the applied presets of the other pages stay as
\* they were, in memory and in the persisted store.
C26_ApplyTouchesOnePage ==
  [][/\ PageStateIssued =>
          UNCHANGED <<presets, pages, dbPresets, dbPages>>
     /\ PageStateCompletesStep =>
          LET q == Head(pageQ) IN
            /\ AppliedOn(pages', q.page) = q.applied
            /\ StoredOn(dbPages', q.pdf, q.page) = q.applied
            /\ \A pg \in Pages \ {q.page} :
                 /\ AppliedOn(pages', pg) = AppliedOn(pages, pg)
                 /\ StoredOn(dbPages', q.pdf, pg) = StoredOn(dbPages, q.pdf, pg)
            /\ UNCHANGED <<presets, dbPresets, lastError>>]_vars

\* Two pages have different applied presets, one of them a preset that does
\* not exist, in memory and in the store.
C26_Witness ==
  \E pg, other \in Pages :
    /\ pg # other
    /\ AppliedOn(pages, pg) \in Ids \ PresetIds(presets)
    /\ AppliedOn(pages, other) # AppliedOn(pages, pg)
    /\ other \in DOMAIN pages
    /\ StoredOn(dbPages, pdfId, pg) = AppliedOn(pages, pg)
    /\ StoredOn(dbPages, pdfId, other) = AppliedOn(pages, other)

\* The write of updatePresetName completes.
NameWriteStep ==
  /\ presetQ # <<>>
  /\ Head(presetQ).kind = "name-write"
  /\ presetQ' = Tail(presetQ)

\* No other mutation of the preset came between the read and the write of
\* updatePresetName: the record read is the record stored.
Undisturbed ==
  /\ Head(presetQ).id \in DOMAIN dbPresets
  /\ dbPresets[Head(presetQ).id] = Head(presetQ).preset

CreateRefused == drag # <<>> /\ handleMouseUp /\ lastError' = "LimitExceeded"

\* The completion of an update is refused with InvalidGeometry.
UpdateRefused ==
  /\ UpdateCompletesStep
  /\ ~AcceptGeometry(MergeUpdates(FindPreset(presets, Head(presetQ).id)[1],
                                  Head(presetQ).updates))

InUnitSquare(r) == 0 <= r.x /\ r.x <= One /\ 0 <= r.y /\ r.y <= One

\* C29: for every pointer position, inside or outside the overlay, and every
\* measured or not yet measured display and canvas size, the conversion of
\* the pointer to ratios gives x and y within [0, 1].
C29_PointerRatioWithinUnitSquare ==
  /\ \A pt \in PosPointers : InUnitSquare(getRelativePos(pt[1], pt[2]))
  /\ drag # <<>> =>
       /\ InUnitSquare([x |-> drag[1].startX, y |-> drag[1].startY])
       /\ InUnitSquare([x |-> drag[1].x, y |-> drag[1].y])
       /\ InUnitSquare([x |-> drag[1].x + drag[1].w, y |-> drag[1].y + drag[1].h])

\* On a display scaled down by the layout a draw runs from a pointer left of
\* and above the overlay to one right of it: the rectangle starts at the
\* corner and ends on the right border.
C29_Witness ==
  /\ displaySize.w # 0
  /\ displaySize # imgSize
  /\ drag # <<>>
  /\ drag[1].startX = 0 /\ drag[1].startY = 0
  /\ drag[1].x + drag[1].w = One
  /\ getRelativePos(-5, -7) = [x |-> 0, y |-> 0]
  /\ getRelativePos(2000, 90).x = One

\* C30: without crop box information the percent rectangle of a preset is the
\* one the normal path gives for CropBox = MediaBox with origin (0, 0).
C30_FallbackIsMediaBoxAsCropBox ==
  (percentOut # <<>> /\ percentArgs[1].info = <<>>) =>
    \A m \in {LetterPage, LabelPage} :
      percentOut[1] = getCropBoxPercentages(percentArgs[1].preset, <<MediaBoxAsCropBox(m)>>)

\* Pointer-down at ratio position r on the empty canvas.
CanvasDown(r) == OnCanvas(r) /\ handleMouseDown(r)

\* C31: pointer-down on the empty canvas starts Drawing only while the preset
\* count is below the maximum; at the limit the editor stays as it was, and a
\* draw that finds the limit reached at pointer-up emits no preset.
C31_DrawOnlyBelowLimit ==
  [][/\ \A pt \in Pointers :
          LET r == getRelativePos(pt[1], pt[2]) IN
            CanvasDown(r) =>
              /\ (drag = <<>> /\ drag' # <<>>) => Len(presets) < MAX_PRESETS_PER_PDF
              /\ Len(presets) >= MAX_PRESETS_PER_PDF => UNCHANGED gestureVars
     /\ (DrawEnds /\ Len(presets) >= MAX_PRESETS_PER_PDF) =>
          UNCHANGED <<presetQ, nextId, presets, dbPresets, selectedPresetId>>]_vars

\* A draw is under way and the preset count has reached the maximum since its
\* pointer-down.
C31_Witness ==
  /\ drag # <<>>
  /\ drag[1].w > 0
  /\ Len(presets) >= MAX_PRESETS_PER_PDF

\* The export handler is entered and goes on with a preset.
ExportStarts == exportTask = <<>> /\ ExportClick /\ exportTask' # <<>>

\* The export in flight ends with a download.
ExportDelivers == ExportCompletes /\ Len(downloads') = Len(downloads) + 1

Quiescent == presetQ = <<>> /\ pageQ = <<>>

\* The presets loadWorkspace would read for the current document.
LoadedPresets ==
  {[id |-> dbPresets[i].id, name |-> dbPresets[i].name, x |-> dbPresets[i].x,
    y |-> dbPresets[i].y, width |-> dbPresets[i].width, height |-> dbPresets[i].height] :
     i \in getCropPresets(dbPresets, pdfId)}

\* C33: once the operations on presets and page states have completed,
\* loading the workspace from the persisted store gives the presets (ids,
\* names, geometry) and the page-to-applied-preset map of the in-memory
\* workspace.
C33_StoreMatchesMemory ==
  Quiescent =>
    /\ LoadedPresets = {presets[i] : i \in 1..Len(presets)}
    /\ \A pg \in Pages : AppliedOn(getAllPageStates(dbPages, pdfId), pg) = AppliedOn(pages, pg)

\* The stored preset is gone from the in-memory workspace: with no create in
\* the rename workspace, its deletePreset has completed.
DeletedInMemory(id) == \A i \in 1..Len(presets) : presets[i].id # id

\* C34: for every interleaving of updatePresetName(id, ...) and
\* deletePreset(id), once both have completed the preset is absent from
\* memory and from the persisted store: the rename never re-creates it.
C34_RenameNeverRecreatesDeletedPreset ==
  \A id \in 1..MaxIds :
    (Quiescent /\ DeletedInMemory(id)) => id \notin DOMAIN dbPresets

\* C35: storePdf followed by getPdfBlob returns exactly the bytes of the file,
\* in order, for a file of every length and whatever the order in which the
\* cursor returns the chunks; every stored chunk is non-empty and at most
\* CHUNK_SIZE long; numChunks is the number of chunks written.
C35_StoredFileRoundTrip ==
  /\ blobOut # <<>> => blobOut[1].blob = [ok |-> TRUE, bytes |-> pdfFile[1]]
  /\ \A c \in chunkStore : Len(c.data) >= 1 /\ Len(c.data) <= CHUNK_SIZE
  /\ StorePdfReturned => metaStore[1].numChunks = Cardinality(chunkStore)

\* A file longer than two chunks, not a multiple of the chunk size, read back
\* through a cursor that returned the last chunk first.
C35_Witness ==
  /\ blobOut # <<>>
  /\ Len(pdfFile[1]) > 2 * CHUNK_SIZE
  /\ Len(pdfFile[1]) % CHUNK_SIZE # 0
  /\ blobOut[1].cursor[1] = metaStore[1].numChunks - 1
  /\ \E i, j \in DOMAIN pdfFile[1] : pdfFile[1][i] # pdfFile[1][j]

\* The empty file: no chunk is written and the blob is empty.
C35_WitnessEmptyFile ==
  blobOut # <<>> /\ pdfFile[1] = <<>> /\ metaStore[1].numChunks = 0

\* A render of the mounted instance is in flight and not superseded.
RenderInFlight == \E t \in renders : t.inst = inst /\ ~t.cancelled

\* C36: no Drawing, Moving or Resizing gesture can begin while a page render
\* is in flight.  The rendering flag is set as long as the render is in
\* flight, and while it is set a pointer-down on the canvas, on a preset's
\* body or on a resize handle leaves the gesture state as it was, and no step
\* starts a gesture.
C36_NoGestureBeginsWhileRendering ==
  /\ [](RenderInFlight => isRendering)
  /\ [][isRendering =>
          /\ (CanvasMouseDown \/ PresetMouseDown \/ HandleMouseDown) => UNCHANGED gestureVars
          /\ drag = <<>> => drag' = <<>>
          /\ moveDrag = <<>> => moveDrag' = <<>>
          /\ resizeDrag = <<>> => resizeDrag' = <<>>]_vars

\* The document was replaced under the editor: a render is in flight with the
\* presets on display, pointer-downs have been delivered, every pointer-down
\* can be delivered and the editor is idle.
C36_Witness ==
  /\ isRendering
  /\ RenderInFlight
  /\ gestures > 0
  /\ ENABLED CanvasMouseDown
  /\ ENABLED PresetMouseDown
  /\ ENABLED HandleMouseDown
  /\ drag = <<>> /\ moveDrag = <<>> /\ resizeDrag = <<>>

\* C37: every page render that is started and not superseded eventually
\* clears the rendering flag, whether the render succeeds or the document
\* load or the rasterization fails.
C37_RenderEventuallyClearsFlag == RenderInFlight ~> ~isRendering

====
